---- MODULE Spec2Model ----
(***************************************************************************)
(* kokostream: the shared audio context, the procedural ambient music      *)
(* generator (utils/audio), the scene playback scheduler (StoryPlayer) and *)
(* the video exporter (VideoExporter), modelled as timed state machines.   *)
(* Times are in milliseconds, gain values in thousandths.                  *)
(***************************************************************************)
EXTENDS Integers, Sequences, FiniteSets, TLC

VARIABLES
    audioContext,\* utils/audio: the context held by the module (0: null), contexts made
    ctxState,    \* AudioContext.state of the shared context
    resumeReq,   \* a ctx.resume() request has been issued and not yet served
    amb,         \* the AmbientGenerator instance: nodes, masterGain, timers
    calls,       \* history: the play/stop calls made on the generator
    story,       \* the Story prop handed to the player and the exporter
    pl,          \* StoryPlayer: React state, refs, sources, timers, frames
    plHist,      \* history: advanceNext calls, finishes, user actions
    ex,          \* VideoExporter: React state, refs, recorder, frames, timers
    appState,    \* App: the AppState that decides which component is mounted
    load,        \* App: a handleLoadDraft call in progress, its draft and results
    ed,          \* StoryEditor: drag state, save status, the stored draft, downloads
    gen,         \* App: the handleGenerate runs, their pending calls, progress, error
    dec          \* utils/audio: a byte array handed to decodeAudioData, and the buffers

\* ---------------------------------------------------------------- bounds
MaxCalls == 3        \* play/stop calls made on one generator
Quantum == 1000      \* largest step of the virtual clock, ms

\* ------------------------------------------------------------- utilities
Range(s) == {s[i] : i \in 1..Len(s)}

Min2(a, b) == IF a <= b THEN a ELSE b

RECURSIVE SeqMin(_)
SeqMin(s) == IF Len(s) = 1 THEN s[1] ELSE Min2(s[1], SeqMin(Tail(s)))

\* --------------------------------------------------- the shared context
\* let audioContext: AudioContext | null = null
NoContext == [instance |-> 0, created |-> 0]

\* a getAudioContext that makes a new context on every call
getAudioContext_Fresh(c) ==
    [instance |-> c.created + 1, created |-> c.created + 1]

\* getAudioContext: the module's variable after the call; the call returns
\* its instance
getAudioContext(c) ==
    IF c.instance = 0
    THEN [instance |-> c.created + 1, created |-> c.created + 1]
    ELSE c

\* ------------------------------------------------ ambient music generator
Moods == {"none", "", "ethereal", "suspense", "scifi"}
RealMoods == {"ethereal", "suspense", "scifi"}

DEFAULT_GAIN == 50       \* masterGain.gain.value = 0.05
TARGET_GAIN == 80        \* linearRampToValueAtTime(0.08, ..)
FADE_IN_MS == 2000       \* now + 2
FADE_OUT_MS == 1000      \* now + 1
TEARDOWN_MS == 1100      \* setTimeout(.., 1100)

Voice(f, t, d, flt, l) == [freq |-> f, type |-> t, delay |-> d, filter |-> flt, lfo |-> l]

\* the createOscillator calls play makes for a mood (frequencies in 1/100 Hz)
Recipe(mood) ==
    IF mood = "ethereal" THEN
        << Voice(22000, "sine", 0, FALSE, FALSE),
           Voice(27718, "sine", 100, FALSE, FALSE),
           Voice(32963, "sine", 200, FALSE, FALSE),
           Voice(41530, "triangle", 100, TRUE, FALSE) >>
    ELSE IF mood = "suspense" THEN
        << Voice(5500, "sawtooth", 0, TRUE, FALSE),
           Voice(11000, "triangle", 0, FALSE, FALSE),
           Voice(11650, "sine", 100, FALSE, FALSE) >>
    ELSE IF mood = "scifi" THEN
        << Voice(11000, "sawtooth", 0, TRUE, TRUE),
           Voice(22000, "square", 0, TRUE, FALSE) >>
    ELSE << >>

Node(g, k, kind, v) == [gen |-> g, voice |-> k, kind |-> kind, spec |-> v]

VOICE_GAIN == 150        \* gain.gain.value = 0.15
LOWPASS_HZ == 400        \* biquad.frequency.value = 400
LFO_RATE == 50           \* lfoOsc.frequency.value = 0.5, in 1/100 Hz
LFO_DEPTH == 200         \* lfoGain.gain.value = 200

\* the setting createOscillator gives a node of this kind
NodeSetting(n) ==
    IF n.kind = "osc" THEN n.spec.freq
    ELSE IF n.kind = "gain" THEN VOICE_GAIN
    ELSE IF n.kind = "biquad" THEN LOWPASS_HZ
    ELSE IF n.kind = "lfoOsc" THEN LFO_RATE
    ELSE LFO_DEPTH

\* a createOscillator that leaves the low-pass filter out
createOscillator_NoBiquad(g, k, v) ==
    << Node(g, k, "osc", v), Node(g, k, "gain", v) >>

\* the nodes one createOscillator call pushes on this.nodes, in push order
createOscillator(g, k, v) ==
    (IF v.lfo /\ v.filter
       THEN << Node(g, k, "lfoOsc", v), Node(g, k, "lfoGain", v) >>
       ELSE << >>)
    \o << Node(g, k, "osc", v), Node(g, k, "gain", v) >>
    \o (IF v.filter THEN << Node(g, k, "biquad", v) >> ELSE << >>)

RECURSIVE BuildFrom(_, _, _)
BuildFrom(g, r, k) ==
    IF k > Len(r) THEN << >>
    ELSE createOscillator(g, k, r[k]) \o BuildFrom(g, r, k + 1)

\* every node that play(mood) creates as graph number g
BuildMood(g, mood) == BuildFrom(g, Recipe(mood), 1)

\* new AmbientGenerator()
NewAmbient ==
    [nodes |-> << >>, live |-> {}, timers |-> << >>,
     gainVal |-> DEFAULT_GAIN, ramp |-> [to |-> DEFAULT_GAIN, left |-> 0],
     gen |-> 0,
     dupTeardown |-> FALSE]   \* history: a node was stopped/disconnected twice

\* setVolume: gain.setValueAtTime(volume, now); scheduled ramps are kept
setVolume(a, volume) == [a EXCEPT !.gainVal = volume]

\* stop: fade the master gain out and arm the teardown timer
stop(a) ==
    [a EXCEPT !.ramp = [to |-> 0, left |-> FADE_OUT_MS],
              !.timers = Append(a.timers, TEARDOWN_MS)]

\* play: stop(), then ramp up and build the graph of the mood
play(a, mood) ==
    LET s == stop(a) IN
    IF mood = "none" \/ mood = "" THEN s
    ELSE LET new == BuildMood(s.gen + 1, mood) IN
         [s EXCEPT !.gainVal = 0,
                   !.ramp = [to |-> TARGET_GAIN, left |-> FADE_IN_MS],
                   !.gen = s.gen + 1,
                   !.nodes = s.nodes \o new,
                   !.live = s.live \cup Range(new)]

\* a teardown callback that forgets to clear this.nodes
teardown_KeepNodes(a) ==
    [a EXCEPT !.live = a.live \ Range(a.nodes),
              !.timers = Tail(a.timers),
              !.dupTeardown = @ \/ ~(Range(a.nodes) \subseteq a.live)]

\* the callback of stop's setTimeout: stop/disconnect whatever is tracked now
teardown(a) ==
    [a EXCEPT !.live = a.live \ Range(a.nodes),
              !.nodes = << >>,
              !.timers = Tail(a.timers),
              !.dupTeardown = @ \/ ~(Range(a.nodes) \subseteq a.live)]

\* the value of the master gain after d ms of its scheduled ramp
RampValue(val, r, d) ==
    IF r.left = 0 THEN val
    ELSE IF d >= r.left THEN r.to
    ELSE val + ((r.to - val) * d) \div r.left

\* d ms pass on the generator's timers and gain automation
ambAdvance(a, d) ==
    [a EXCEPT !.timers = [i \in 1..Len(a.timers) |-> a.timers[i] - d],
              !.gainVal = RampValue(a.gainVal, a.ramp, d),
              !.ramp = [to |-> a.ramp.to,
                        left |-> IF d >= a.ramp.left THEN 0 ELSE a.ramp.left - d]]

\* the generator once its pending timers have fired and its ramp has ended
RECURSIVE Settle(_)
Settle(a) ==
    IF a.timers = << >> THEN ambAdvance(a, a.ramp.left)
    ELSE IF Head(a.timers) <= 0 THEN Settle(teardown(a))
    ELSE Settle(ambAdvance(a, Head(a.timers)))

\* time until the generator's next timer, or the clock quantum
ambStep(a) == IF a.timers = << >> THEN Quantum ELSE Min2(Quantum, SeqMin(a.timers))

\* play() asks the context to resume when it finds it suspended
ResumeAfterPlay(mood) ==
    IF mood # "none" /\ mood # "" /\ ctxState = "suspended" THEN TRUE ELSE resumeReq

\* a recorded call; imm: no time passed between the previous call and this one
Call(op, mood, g) ==
    [op |-> op, mood |-> mood, gen |-> g, aged |-> FALSE,
     imm |-> calls # << >> /\ ~calls[Len(calls)].aged]

\* time has passed since every recorded call
Aged(cs) == [i \in 1..Len(cs) |-> [cs[i] EXCEPT !.aged = TRUE]]


ambVars == << audioContext, ctxState, resumeReq, amb, calls >>

AmbPlay(mood) ==
    /\ Len(calls) < MaxCalls
    /\ amb' = play(amb, mood)
    /\ resumeReq' = ResumeAfterPlay(mood)
    /\ calls' = Append(calls, Call("play", mood, amb'.gen))
    /\ UNCHANGED << audioContext, ctxState >>

AmbStop ==
    /\ Len(calls) < MaxCalls
    /\ amb' = stop(amb)
    /\ calls' = Append(calls, Call("stop", "none", amb.gen))
    /\ UNCHANGED << audioContext, ctxState, resumeReq >>

AmbSetVolume(v) ==
    /\ amb.gainVal # v
    /\ amb' = setVolume(amb, v)
    /\ UNCHANGED << audioContext, ctxState, resumeReq, calls >>

AmbTimer ==
    /\ amb.timers # << >>
    /\ Head(amb.timers) = 0
    /\ amb' = teardown(amb)
    /\ UNCHANGED << audioContext, ctxState, resumeReq, calls >>

AmbResumed ==
    /\ resumeReq
    /\ ctxState' = "running"
    /\ UNCHANGED audioContext
    /\ resumeReq' = FALSE
    /\ UNCHANGED << amb, calls >>

AmbTick ==
    /\ ambStep(amb) > 0
    /\ amb.timers # << >> \/ amb.ramp.left > 0
    /\ amb' = ambAdvance(amb, ambStep(amb))
    /\ calls' = Aged(calls)
    /\ UNCHANGED << audioContext, ctxState, resumeReq >>

\* ------------------------------------------------------------ the story
MaxScenes == 2           \* scenes of a story
MaxUserActs == 2         \* user actions during one player session
NarrationMs == 2000      \* duration of a scene's decoded narration, when present
NoTransition == -1       \* scene.transition is undefined
NaN == -2                \* the duration is NaN: parseInt of an empty field
TransChoices == {NoTransition, 200}

DigitValue == ("0" :> 0) @@ ("1" :> 1) @@ ("2" :> 2) @@ ("3" :> 3) @@ ("4" :> 4)
              @@ ("5" :> 5) @@ ("6" :> 6) @@ ("7" :> 7) @@ ("8" :> 8) @@ ("9" :> 9)

\* the digits a text starts with
RECURSIVE LeadingDigits(_)
LeadingDigits(text) ==
    IF text = << >> \/ Head(text) \notin DOMAIN DigitValue THEN << >>
    ELSE << Head(text) >> \o LeadingDigits(Tail(text))

\* the number written by a sequence of digits
RECURSIVE DecimalValue(_)
DecimalValue(ds) ==
    IF ds = << >> THEN 0
    ELSE 10 * DecimalValue(SubSeq(ds, 1, Len(ds) - 1)) + DigitValue[ds[Len(ds)]]

\* parseInt of a text given as its characters: an optional sign, then the
\* leading digits; NaN when there is no digit
parseInt(text) ==
    LET signed == text # << >> /\ Head(text) \in {"-", "+"}
        ds == LeadingDigits(IF signed THEN Tail(text) ELSE text)
    IN  IF ds = << >> THEN NaN
        ELSE IF signed /\ Head(text) = "-" THEN 0 - DecimalValue(ds)
        ELSE DecimalValue(ds)

\* what the duration field can hold when its change event fires
FieldTexts ==
    { << >>, << "-", "2", "0", "0" >>, << "0" >>, << "5" >>,
      << "2", "0", "0" >>, << "6", "0", "0", "0" >> }

\* the durations the editor can store: parseInt of whatever the field holds
StoredDurations == {parseInt(text) : text \in FieldTexts}
PlayerMoods == {"none", "ethereal"}

Scene(a, t, img) == [audio |-> a, transition |-> t, image |-> img]

NumScenes == Len(story.scenes)

\* story.scenes[i] for the 0-based index of the code
SceneAt(i) == story.scenes[i + 1]

\* ------------------------------------------------- scene playback scheduler
\* a fallback that advances a silent scene one second early
FALLBACK_MS_Short == 3000 - 1000

FALLBACK_MS == 3000              \* window.setTimeout(.., 3000)
DEFAULT_TRANSITION_MS == 1000    \* nextScene.transition?.duration || 1000

\* the smallest handle (timer id, source id) not in use
FreeId(used) == CHOOSE i \in 1..(Cardinality(used) + 1) :
                    i \notin used /\ \A j \in 1..(i - 1) : j \in used

Ids(set) == {x.id : x \in set}

\* useState/useRef initial values of StoryPlayer
NewPlayer ==
    [mounted |-> FALSE,
     currentSceneIndex |-> 0, isPlaying |-> FALSE, isFinished |-> FALSE,
     isMuted |-> FALSE, layoutStage |-> "active",
     audioSourceRef |-> 0, transitionTimeoutRef |-> 0, isPlayingRef |-> FALSE,
     sources |-> {},      \* started AudioBufferSourceNodes not yet stopped/ended
     timers |-> {},       \* pending window.setTimeout callbacks
     rafOuter |-> FALSE,  \* an outer requestAnimationFrame callback is pending
     rafInner |-> FALSE,  \* an inner requestAnimationFrame callback is pending
     awaiting |-> << >>]  \* playScene calls suspended at await ctx.resume()

\* stopAudio: stop the referenced source, clear the referenced timer
stopAudio(p) ==
    [p EXCEPT !.sources = {s \in p.sources : s.id # p.audioSourceRef},
              !.audioSourceRef = 0,
              !.timers = {t \in p.timers : t.id # p.transitionTimeoutRef},
              !.transitionTimeoutRef = 0]

\* playScene from ctx.createBufferSource() to source.start()
startNarration(p, index) ==
    LET id == FreeId(Ids(p.sources) \cup {p.audioSourceRef}) IN
    [p EXCEPT !.sources = p.sources \cup
                  {[id |-> id, scene |-> index, left |-> SceneAt(index).audio]},
              !.audioSourceRef = id]

\* playScene up to its first suspension point (or to its end)
playScene(p, index, running) ==
    LET q == [stopAudio(p) EXCEPT !.currentSceneIndex = index,
                                  !.isFinished = FALSE,
                                  !.isPlaying = TRUE,
                                  !.isPlayingRef = TRUE,
                                  !.layoutStage = "enter",
                                  !.rafOuter = TRUE]
    IN  IF SceneAt(index).audio = 0
        THEN LET id == FreeId(Ids(q.timers) \cup {q.transitionTimeoutRef}) IN
             [q EXCEPT !.timers = q.timers \cup
                           {[id |-> id, kind |-> "advance", arg |-> index,
                             left |-> FALLBACK_MS]},
                       !.transitionTimeoutRef = id]
        ELSE IF ~running
        THEN [q EXCEPT !.awaiting = Append(q.awaiting, index)]
        ELSE startNarration(q, index)

\* nextScene.transition?.duration || 1000
TransitionDuration(sc) ==
    IF sc.transition \in {NoTransition, NaN, 0}
    THEN DEFAULT_TRANSITION_MS ELSE sc.transition

\* a setTimeout that keeps a negative delay, which never becomes due
TimeoutDelay_KeepNegative(ms) == ms

\* the delay setTimeout applies for a requested delay
TimeoutDelay(ms) == IF ms < 0 THEN 0 ELSE ms

\* advanceNext that replays the scene it was called for (currentIndex, not + 1)
advanceNext_SameScene(p, currentIndex) ==
    IF currentIndex < NumScenes - 1
    THEN LET id == FreeId(Ids(p.timers) \cup {p.transitionTimeoutRef}) IN
         [p EXCEPT !.layoutStage = "exit",
                   !.timers = p.timers \cup
                       {[id |-> id, kind |-> "play", arg |-> currentIndex,
                         left |-> TimeoutDelay(
                            TransitionDuration(SceneAt(currentIndex + 1)) \div 2)]},
                   !.transitionTimeoutRef = id]
    ELSE [p EXCEPT !.isFinished = TRUE, !.isPlaying = FALSE, !.isPlayingRef = FALSE]

\* advanceNext that arms the timer without setting the exit stage
advanceNext_NoExit(p, currentIndex) ==
    IF currentIndex < NumScenes - 1
    THEN LET id == FreeId(Ids(p.timers) \cup {p.transitionTimeoutRef}) IN
         [p EXCEPT !.timers = p.timers \cup
                       {[id |-> id, kind |-> "play", arg |-> currentIndex + 1,
                         left |-> TimeoutDelay(
                            TransitionDuration(SceneAt(currentIndex + 1)) \div 2)]},
                   !.transitionTimeoutRef = id]
    ELSE [p EXCEPT !.isFinished = TRUE, !.isPlaying = FALSE, !.isPlayingRef = FALSE]

\* advanceNext that leaves the player playing after the last scene
advanceNext_StillPlaying(p, currentIndex) ==
    IF currentIndex < NumScenes - 1
    THEN LET id == FreeId(Ids(p.timers) \cup {p.transitionTimeoutRef}) IN
         [p EXCEPT !.layoutStage = "exit",
                   !.timers = p.timers \cup
                       {[id |-> id, kind |-> "play", arg |-> currentIndex + 1,
                         left |-> TimeoutDelay(
                            TransitionDuration(SceneAt(currentIndex + 1)) \div 2)]},
                   !.transitionTimeoutRef = id]
    ELSE [p EXCEPT !.isFinished = TRUE]

\* advanceNext, the player's part
advanceNext(p, currentIndex) ==
    IF currentIndex < NumScenes - 1
    THEN LET id == FreeId(Ids(p.timers) \cup {p.transitionTimeoutRef}) IN
         [p EXCEPT !.layoutStage = "exit",
                   !.timers = p.timers \cup
                       {[id |-> id, kind |-> "play", arg |-> currentIndex + 1,
                         left |-> TimeoutDelay(
                            TransitionDuration(SceneAt(currentIndex + 1)) \div 2)]},
                   !.transitionTimeoutRef = id]
    ELSE [p EXCEPT !.isFinished = TRUE, !.isPlaying = FALSE, !.isPlayingRef = FALSE]

\* advanceNext, the music's part: musicPlayerRef.current?.stop()
advanceMusic(a, currentIndex) ==
    IF currentIndex < NumScenes - 1 THEN a ELSE stop(a)

\* handlePlayPause that resumes on the current index even when finished
handlePlayPause_NoRestart(p, running) ==
    IF p.isPlaying
    THEN [stopAudio(p) EXCEPT !.isPlaying = FALSE, !.isPlayingRef = FALSE]
    ELSE playScene(p, p.currentSceneIndex, running)

\* handlePlayPause, the player's part
handlePlayPause(p, running) ==
    IF p.isPlaying
    THEN [stopAudio(p) EXCEPT !.isPlaying = FALSE, !.isPlayingRef = FALSE]
    ELSE IF p.isFinished THEN playScene(p, 0, running)
         ELSE playScene(p, p.currentSceneIndex, running)

\* a handlePlayPause that starts the mood again when it restarts the story
playPauseMusic_Replay(a, p) ==
    IF p.isPlaying THEN setVolume(a, 0)
    ELSE IF p.isFinished THEN play(a, story.backgroundMusic)
    ELSE setVolume(a, IF p.isMuted THEN 0 ELSE TARGET_GAIN)

\* handlePlayPause, the music's part
playPauseMusic(a, p) ==
    IF p.isPlaying THEN setVolume(a, 0)
    ELSE setVolume(a, IF p.isMuted THEN 0 ELSE TARGET_GAIN)

\* handleNext that replays the last scene instead of doing nothing
handleNext_Replay(p, running) ==
    IF p.currentSceneIndex < NumScenes - 1
    THEN playScene(p, p.currentSceneIndex + 1, running)
    ELSE playScene(p, p.currentSceneIndex, running)

handleNext(p, running) ==
    IF p.currentSceneIndex < NumScenes - 1
    THEN playScene(p, p.currentSceneIndex + 1, running) ELSE p

handlePrevious(p, running) ==
    IF p.currentSceneIndex > 0
    THEN playScene(p, p.currentSceneIndex - 1, running) ELSE p

\* a playScene call that reached await ctx.resume() asks for a resume
ResumeAfter(p) == IF Len(p.awaiting) > Len(pl.awaiting) THEN TRUE ELSE resumeReq

\* every suspended playScene call continues, in the order of the calls
RECURSIVE continueAll(_)
continueAll(p) ==
    IF p.awaiting = << >> THEN p
    ELSE continueAll(startNarration([p EXCEPT !.awaiting = Tail(p.awaiting)],
                                    Head(p.awaiting)))

\* history: an event of the run that no user action has touched yet, stamped
\* with the time since the mount (play: playScene was called; sound: the
\* narration source was started; exit, finished: the branch advanceNext took)
Stamp(h, ev, scene) ==
    IF h.touched THEN h
    ELSE [h EXCEPT !.timeline = Append(@, [ev |-> ev, scene |-> scene, at |-> h.clock])]

\* history: d ms pass
Ticked(h, d) == IF h.touched THEN h ELSE [h EXCEPT !.clock = @ + d]

\* history: the narrations of the playScene calls in w were started
RECURSIVE Sounded(_, _)
Sounded(h, w) ==
    IF w = << >> THEN h ELSE Sounded(Stamp(h, "sound", Head(w)), Tail(w))

\* history: advanceNext(i) was called in player state p and left state q
\* (advLog: the calls made before the first user action; finishes: the entries
\* into finished, counted up to 2; exit begun: the call left the stage at exit
\* and armed a timer);
\* stale: the call came from a narration that is no longer the current one
Advanced(h, p, q, i, stale) ==
    [h EXCEPT !.advLog = IF h.touched THEN @ ELSE Append(@, i),
              !.finishes = IF q.isFinished /\ ~p.isFinished /\ @ < 2 THEN @ + 1 ELSE @,
              !.pausedAdvance = h.pausedAdvance \/ (~p.isPlaying /\ ~p.isFinished),
              !.staleAdvance = h.staleAdvance \/ stale,
              !.exitBegun = h.exitBegun \cup
                  (IF q.layoutStage = "exit" /\ q.timers \ p.timers # {} THEN {i} ELSE {}),
              !.timeline = Stamp(h, IF i < NumScenes - 1 THEN "exit" ELSE "finished",
                                 i).timeline]

\* history: playScene(index) was called by the mount effect, the user or a timer
Started(h, index, by) ==
    LET g == Stamp(h, "play", index) IN
    [(IF SceneAt(index).audio # 0 /\ ctxState = "running"
        THEN Stamp(g, "sound", index) ELSE g)
     EXCEPT !.lastStart = [index |-> index, by |-> by]]

\* history: a playback control was used; the log of the untouched run ends
UserActed(h, act) ==
    [h EXCEPT !.userActs = h.userActs + 1, !.touched = TRUE, !.lastAct = act,
              !.advLog = << >>, !.clock = 0, !.timeline = << >>]

NewHist ==
    [advLog |-> << >>, finishes |-> 0, userActs |-> 0, touched |-> FALSE,
     lastAct |-> "none", pausedAdvance |-> FALSE, staleAdvance |-> FALSE,
     exitBegun |-> {}, lastStart |-> [index |-> 0, by |-> "none"],
     clock |-> 0, timeline |-> << >>]

\* ------------------------------------------------------- video exporter
EXPORT_MIN_MS == 4000        \* const duration = 4000
NARRATION_PAD_MS == 500      \* narrationDuration + 500
COMPLETE_DELAY_MS == 2000    \* setTimeout(onComplete, 2000)
ExportNarrationMs == 4000    \* duration of a narration in the exported stories
ImageChoices == {"ok", "error", "none"}

CaptureSink == "audioDest"           \* ctx.createMediaStreamDestination()
ContextOutput == "ctx.destination"   \* the normal audio output

\* useState/useRef initial values of VideoExporter
NewExporter ==
    [mounted |-> FALSE,
     pc |-> "init",            \* where startExport/playAllScenes stands
     i |-> 0,                  \* the loop variable of playAllScenes
     progress |-> 0,           \* in 1/1000 percent
     currentSceneIndex |-> 0, isDone |-> FALSE,
     recorder |-> "none",      \* recorderRef.current.state, "none" while null
     stopEvents |-> 0,         \* stop events of the recorder not yet delivered
     frameIdRef |-> 0, isRecordingRef |-> FALSE,
     frames |-> {},            \* pending requestAnimationFrame(render) callbacks
     sceneTimer |-> -1,        \* ms left of the scene's setTimeout, -1 when none
     music |-> "none",         \* the music bed oscillator: none, running, stopped
     musicSink |-> "none",     \* the node the music bed's gain is connected to
     narrations |-> {},        \* narration sources started and not yet ended
     completeTimers |-> << >>, \* ms left of each setTimeout(onComplete, 2000)
     downloads |-> 0,          \* a.click() calls made by recorder.onstop
     aborted |-> FALSE]        \* history: unmounted before the loop wrapped up

\* a scene duration without the 500 ms after the narration
sceneDuration_NoPad(sc) ==
    IF sc.audio > EXPORT_MIN_MS THEN sc.audio ELSE EXPORT_MIN_MS

\* Math.max(duration, narrationDuration + 500)
sceneDuration(sc) ==
    LET narrationDuration == sc.audio IN
    IF narrationDuration + NARRATION_PAD_MS > EXPORT_MIN_MS
    THEN narrationDuration + NARRATION_PAD_MS ELSE EXPORT_MIN_MS

\* a loop that wraps up one scene early
loopTop_EarlyWrapUp(x) ==
    IF x.i + 1 < NumScenes
    THEN [x EXCEPT !.currentSceneIndex = IF x.mounted THEN x.i ELSE @,
                   !.pc = "awaitImage"]
    ELSE [x EXCEPT !.music = IF @ = "running" THEN "stopped" ELSE @,
                   !.recorder = IF @ = "recording" THEN "inactive" ELSE @,
                   !.stopEvents = IF x.recorder = "recording" THEN @ + 1 ELSE @,
                   !.isRecordingRef = FALSE,
                   !.pc = "done"]

\* playAllScenes at the top of the loop body for scene x.i, up to the await
\* of the image load; past the last scene, the wrap-up
loopTop(x) ==
    IF x.i < NumScenes
    THEN [x EXCEPT !.currentSceneIndex = IF x.mounted THEN x.i ELSE @,
                   !.pc = "awaitImage"]
    ELSE IF x.recorder = "recording"
    THEN [x EXCEPT !.music = IF @ = "running" THEN "stopped" ELSE @,
                   !.recorder = "inactive",
                   !.stopEvents = @ + 1,
                   !.isRecordingRef = FALSE,
                   !.pc = "done"]
    \* recorder.stop() on an inactive recorder throws InvalidStateError
    ELSE [x EXCEPT !.music = IF @ = "running" THEN "stopped" ELSE @,
                   !.pc = "threw"]

\* startExport after the resume of the context, and playAllScenes up to its
\* first await
startExport(x) ==
    \* canvasRef.current is null once unmounted: captureStream throws
    IF ~x.mounted THEN [x EXCEPT !.pc = "threw"]
    ELSE loopTop([x EXCEPT !.recorder = "recording",
                           !.isRecordingRef = TRUE,
                           !.music = IF story.backgroundMusic # "none"
                                        /\ story.backgroundMusic # ""
                                     THEN "running" ELSE "none",
                           !.musicSink = IF story.backgroundMusic # "none"
                                            /\ story.backgroundMusic # ""
                                         THEN CaptureSink ELSE "none",
                           !.i = 0])

\* a startScene that plays the narration on the normal output
startScene_ToOutput(x) ==
    LET sc == SceneAt(x.i)
        id == FreeId(Ids(x.frames) \cup {x.frameIdRef})
    IN  [x EXCEPT !.narrations = IF sc.audio = 0 THEN @
                                 ELSE @ \cup {[scene |-> x.i, left |-> sc.audio,
                                               sink |-> ContextOutput]},
                  !.frames = @ \cup {[id |-> id, scene |-> x.i]},
                  !.frameIdRef = id,
                  !.sceneTimer = sceneDuration(sc),
                  !.pc = "awaitScene"]

\* playAllScenes from the image load of scene x.i to the await of its timer
startScene(x) ==
    LET sc == SceneAt(x.i)
        id == FreeId(Ids(x.frames) \cup {x.frameIdRef})
    IN  [x EXCEPT !.narrations = IF sc.audio = 0 THEN @
                                 ELSE @ \cup {[scene |-> x.i, left |-> sc.audio,
                                               sink |-> CaptureSink]},
                  !.frames = @ \cup {[id |-> id, scene |-> x.i]},
                  !.frameIdRef = id,
                  !.sceneTimer = sceneDuration(sc),
                  !.pc = "awaitScene"]

\* the progress value render computes for scene k after elapsed ms
renderProgress(k, elapsed) ==
    LET dur == sceneDuration(SceneAt(k))
        pm == IF elapsed >= dur THEN 1000 ELSE (elapsed * 1000) \div dur
    IN  [pm |-> pm, total |-> ((k * 1000 + pm) * 100) \div NumScenes]

\* one render callback f runs, elapsed ms after the start of its scene
render(x, f, elapsed) ==
    LET r == renderProgress(f.scene, elapsed)
        rest == x.frames \ {f}
        id == FreeId(Ids(rest) \cup {x.frameIdRef})
    IN  [x EXCEPT !.progress = IF x.mounted THEN r.total ELSE @,
                  !.frames = IF r.pm < 1000
                             THEN rest \cup {[id |-> id, scene |-> f.scene]} ELSE rest,
                  !.frameIdRef = IF r.pm < 1000 THEN id ELSE @]

\* a scene timeout that leaves the pending frame alone
sceneTimeout_NoCancel(x) ==
    loopTop([x EXCEPT !.sceneTimer = -1,
                      !.i = @ + 1])

\* the scene's timer fires: cancelAnimationFrame, then the next loop round
sceneTimeout(x) ==
    loopTop([x EXCEPT !.frames = {f \in @ : f.id # x.frameIdRef},
                      !.sceneTimer = -1,
                      !.i = @ + 1])

\* recorder.onstop: download the blob, mark done, schedule onComplete
onstop(x) ==
    [x EXCEPT !.stopEvents = @ - 1,
              !.downloads = @ + 1,
              !.isDone = IF x.mounted THEN TRUE ELSE @,
              !.completeTimers = Append(@, COMPLETE_DELAY_MS)]

\* the cleanup of the mount effect, run when the exporter unmounts
cleanup(x) ==
    LET y == [x EXCEPT !.mounted = FALSE,
                       !.frames = {f \in @ : f.id # x.frameIdRef},
                       !.aborted = @ \/ (x.pc # "done")]
    IN  IF x.recorder = "recording"
        THEN [y EXCEPT !.recorder = "inactive", !.stopEvents = @ + 1]
        ELSE y

\* ------------------------------------------------ App: loading a draft

MaxDraftScenes == 2     \* scenes of a loaded draft
PresetFrames == 3       \* frames of a buffer a draft scene already carries

\* a draft scene's audioData: the frames of its AudioBuffer, 0 when undefined
NoAudioData == 0

\* a draft scene's audioBase64 when the field is missing
NoPayload == << "undefined" >>

\* a scene's imageData when the field is missing
NoImage == << "undefined" >>

\* the audioBase64 texts of the drafts, as their characters: two bytes, three
\* bytes, a character outside the alphabet, white space only, the empty text
DraftTexts ==
    { << "A", "A", "A", "=" >>, << "A", "A", "A", "A" >>,
      << "A", "!", "A", "=" >>, << " " >>, << >> }

Base64Alphabet == {"A"}
NotSpace(c) == c # " "
InAlphabet(c) == c \in Base64Alphabet

\* a text without its one or two trailing '=' when its length is a multiple of 4
Unpadded(t) ==
    IF Len(t) % 4 # 0 \/ t = << >> THEN t
    ELSE IF t[Len(t)] # "=" THEN t
    ELSE IF t[Len(t) - 1] # "=" THEN SubSeq(t, 1, Len(t) - 1)
    ELSE SubSeq(t, 1, Len(t) - 2)

\* decodeBase64: atob(text) as [ok, bytes]; atob throws on a remainder of one
\* character and on a character outside the alphabet
decodeBase64(text) ==
    LET t == Unpadded(SelectSeq(text, NotSpace)) IN
    IF Len(t) % 4 = 1 \/ SelectSeq(t, InAlphabet) # t
    THEN [ok |-> FALSE, bytes |-> 0]
    ELSE [ok |-> TRUE, bytes |-> (Len(t) * 6) \div 8]

\* decodeAudioData: Int16Array over an odd number of bytes throws RangeError,
\* createBuffer with no frame throws NotSupportedError
decodeAudioData(bytes) ==
    IF bytes % 2 # 0 \/ bytes \div 2 = 0
    THEN [ok |-> FALSE, frames |-> 0]
    ELSE [ok |-> TRUE, frames |-> bytes \div 2]

\* the 16-bit integer an Int16Array reads at 0-based index k of the bytes:
\* low byte first, two's complement
Int16At(data, k) ==
    LET u == data[2 * k + 1] + 256 * data[2 * k + 2] IN
    IF u >= 32768 THEN u - 65536 ELSE u

\* decodeAudioData on the bytes themselves, for numChannels channels: the
\* samples of each channel in 1/32768 (Int16 / 32768.0 is exact in a
\* Float32). Int16Array throws on an odd length; createBuffer takes the
\* frame count as an unsigned long (the fraction is cut) and throws on 0;
\* writes past the end of channelData are ignored
decodePcm(data, numChannels) ==
    IF Len(data) % 2 # 0 THEN [ok |-> FALSE, frames |-> 0, channels |-> << >>]
    ELSE LET length == (Len(data) \div 2) \div numChannels IN
         IF length = 0 THEN [ok |-> FALSE, frames |-> 0, channels |-> << >>]
         ELSE [ok |-> TRUE, frames |-> length,
               channels |-> [ch \in 1..numChannels |->
                               [i \in 1..length |->
                                   Int16At(data, (i - 1) * numChannels + ch - 1)]]]

\* no decodeAudioData call made
NoDecode ==
    [data |-> << >>, numChannels |-> 1,
     calls |-> 0,                 \* decodeAudioData calls made on data
     first |-> [ok |-> FALSE, frames |-> 0, channels |-> << >>],
     second |-> [ok |-> FALSE, frames |-> 0, channels |-> << >>]]

\* !audioData && scene.audioBase64
NeedsDecode(sc) ==
    sc.audioData = NoAudioData /\ sc.audioBase64 # NoPayload /\ sc.audioBase64 # << >>

\* a map callback without the inner try/catch: a failed decode rejects
restoreScene_NoCatch(sc) ==
    IF ~NeedsDecode(sc) THEN [ok |-> TRUE, scene |-> sc]
    ELSE LET raw == decodeBase64(sc.audioBase64)
             buf == decodeAudioData(raw.bytes)
         IN  IF raw.ok /\ buf.ok
             THEN [ok |-> TRUE, scene |-> [sc EXCEPT !.audioData = buf.frames]]
             ELSE [ok |-> FALSE, scene |-> sc]

\* the async callback handleLoadDraft maps over draft.scenes
restoreScene(sc) ==
    IF ~NeedsDecode(sc) THEN [ok |-> TRUE, scene |-> sc]
    ELSE LET raw == decodeBase64(sc.audioBase64)
             buf == decodeAudioData(raw.bytes)
         IN  IF raw.ok /\ buf.ok
             THEN [ok |-> TRUE, scene |-> [sc EXCEPT !.audioData = buf.frames]]
             \* catch (e): console.warn, audioData stays undefined
             ELSE [ok |-> TRUE, scene |-> sc]

\* useState<Story | null>(null), modelled as the story without scenes
NoStory == [scenes |-> << >>, backgroundMusic |-> "none"]

\* no handleLoadDraft call made
NoLoad ==
    [pc |-> "idle",        \* idle, decoding (awaiting Promise.all), done
     draft |-> NoStory,
     pending |-> {},       \* positions whose callback has not settled
     restored |-> << >>,   \* what the settled callbacks returned
     rejected |-> FALSE,   \* a callback's promise was rejected
     error |-> ""]

\* ------------------------------------------------ App: generating a story

MaxRuns == 1            \* handleGenerate calls in one run of the App

\* useState<GenerationProgress | null>(null)
NoProgress == [totalScenes |-> -1, completedScenes |-> -1]

\* no handleGenerate call made; error "" stands for null
NewGen ==
    [runs |-> << >>,           \* one record per handleGenerate call
     progress |-> NoProgress,
     error |-> ""]

\* a handleGenerate call that awaits generateStoryScript
NewRun ==
    [status |-> "script",      \* script, assets, review, error
     n |-> 0,                  \* generatedStory.scenes.length
     pending |-> {},           \* generateSceneImage / generateSceneAudio calls out
     got |-> {},               \* results waiting for the scene's other call
     failed |-> FALSE]         \* history: a generation call of the run failed

GenCall(kind, scene) == [kind |-> kind, scene |-> scene]
Sibling(c) == GenCall(IF c.kind = "image" THEN "audio" ELSE "image", c.scene)

\* the scenes generateStoryScript returns, and what the asset calls add
ScriptScene(k) ==
    [id |-> k, imageData |-> NoImage, audioBase64 |-> NoPayload, audioData |-> NoAudioData]
EnrichedScene(k) ==
    [id |-> k, imageData |-> << "i", "m", "g", "0" >>,
     audioBase64 |-> << "A", "A", "A", "=" >>, audioData |-> 1]

\* a run whose Promise.all waits for every call and ignores rejections
callSettled_AllSettled(run, c, ok) ==
    LET left == run.pending \ {c}
        got == IF ok /\ Sibling(c) \in left THEN run.got \cup {c}
               ELSE run.got \ {Sibling(c)}
    IN  [run EXCEPT !.pending = left, !.got = got,
                    !.failed = @ \/ ~ok,
                    !.status = IF @ # "assets" THEN @
                               ELSE IF left = {} THEN "review"
                               ELSE @]

\* one generateSceneImage / generateSceneAudio call of the run settles: the
\* first rejection rejects Promise.all and runs the catch, the last result
\* lets handleGenerate go on to the review state
callSettled(run, c, ok) ==
    LET left == run.pending \ {c}
        \* a result is kept only while the scene's other call is out
        got == IF ok /\ Sibling(c) \in left THEN run.got \cup {c}
               ELSE run.got \ {Sibling(c)}
    IN  [run EXCEPT !.pending = left, !.got = got,
                    !.failed = @ \/ ~ok,
                    !.status = IF @ # "assets" THEN @
                               ELSE IF ~ok THEN "error"
                               ELSE IF left = {} THEN "review"
                               ELSE @]

\* setProgress(prev => ...) of a scene whose two calls have returned
sceneCompleted(progress, run) ==
    IF progress = NoProgress THEN NoProgress
    ELSE [progress EXCEPT !.completedScenes =
             IF @ + 1 < run.n THEN @ + 1 ELSE run.n]

\* ------------------------------------------------ the editor's state

NoIndex == -1           \* draggedIndex / dragOverIndex when null

\* useState initial values of StoryEditor, the stored draft and the downloads
NewEditor ==
    [draggedIndex |-> NoIndex, dragOverIndex |-> NoIndex,
     saveStatus |-> "idle",
     timers |-> << >>,         \* ms left of each setTimeout(..., 3000) of handleSave
     storage |-> [capacity |-> 0, denied |-> FALSE],   \* what localStorage accepts
     item |-> << >>,           \* localStorage 'koko_story_draft': no or one document
     downloaded |-> << >>,     \* the document of the last download, if any
     saves |-> 0,              \* history: handleSave calls made
     writes |-> << >>,         \* history: the setItem calls of the last handleSave
     outcome |-> "none",       \* history: the status the last handleSave set
     original |-> << >>]       \* history: the scenes the editor was opened with

SAVE_RESET_MS == 3000         \* setTimeout(..., 3000) of handleSave
SCENE_TEXT_SIZE == 1          \* what a scene's id, narrative and prompt take up

\* the space JSON.stringify of a document takes up: undefined fields are left out
DocSize(doc) ==
    LET size(sc) == SCENE_TEXT_SIZE
                    + (IF sc.imageData = NoImage THEN 0 ELSE Len(sc.imageData))
                    + (IF sc.audioBase64 = NoPayload THEN 0 ELSE Len(sc.audioBase64))
        sum[k \in 0..Len(doc.scenes)] ==
            IF k = 0 THEN 0 ELSE sum[k - 1] + size(doc.scenes[k])
    IN  sum[Len(doc.scenes)]

\* a prepareStoryForSave that leaves the decoded buffer in
prepareStoryForSave_KeepBuffer(st, stripImages, stripAudio) ==
    [st EXCEPT !.scenes =
        [k \in DOMAIN st.scenes |->
            [st.scenes[k] EXCEPT
                !.imageData = IF stripImages THEN NoImage ELSE @,
                !.audioBase64 = IF stripAudio THEN NoPayload ELSE @]]]

\* prepareStoryForSave: the scenes without audioData, and without imageData
\* and audioBase64 when they are stripped
prepareStoryForSave(st, stripImages, stripAudio) ==
    [st EXCEPT !.scenes =
        [k \in DOMAIN st.scenes |->
            [st.scenes[k] EXCEPT
                !.audioData = NoAudioData,
                !.imageData = IF stripImages THEN NoImage ELSE @,
                !.audioBase64 = IF stripAudio THEN NoPayload ELSE @]]]

\* localStorage.setItem(key, JSON.stringify(doc)): "ok", or the name of the
\* error it throws
setItem(storage, doc) ==
    IF storage.denied THEN "SecurityError"
    ELSE IF DocSize(doc) > storage.capacity THEN "QuotaExceededError"
    ELSE "ok"

\* a handleSave that gives up after the write without images
handleSave_TwoSteps(e, st) ==
    LET full == prepareStoryForSave(st, FALSE, FALSE)
        noImages == prepareStoryForSave(st, TRUE, FALSE)
        r1 == setItem(e.storage, full)
        r2 == setItem(e.storage, noImages)
        done(status, doc, ws) ==
            [e EXCEPT !.saveStatus = status, !.outcome = status,
                      !.item = IF doc = << >> THEN @ ELSE doc,
                      !.writes = ws, !.saves = @ + 1,
                      !.timers = Append(@, SAVE_RESET_MS)]
    IN  IF r1 = "ok" THEN done("saved", << full >>, << "full" >>)
        ELSE IF r1 # "QuotaExceededError" THEN done("error", << >>, << "full" >>)
        ELSE IF r2 = "ok" THEN done("partial", << noImages >>, << "full", "noImages" >>)
        ELSE done("error", << >>, << "full", "noImages" >>)

\* handleSave: the full story, then without images, then without images and
\* raw audio; the 3000 ms timer that resets the status
handleSave(e, st) ==
    LET full == prepareStoryForSave(st, FALSE, FALSE)
        noImages == prepareStoryForSave(st, TRUE, FALSE)
        textOnly == prepareStoryForSave(st, TRUE, TRUE)
        r1 == setItem(e.storage, full)
        r2 == setItem(e.storage, noImages)
        r3 == setItem(e.storage, textOnly)
        done(status, doc, ws) ==
            [e EXCEPT !.saveStatus = status, !.outcome = status,
                      !.item = IF doc = << >> THEN @ ELSE doc,
                      !.writes = ws, !.saves = @ + 1,
                      !.timers = Append(@, SAVE_RESET_MS)]
    IN  IF r1 = "ok" THEN done("saved", << full >>, << "full" >>)
        ELSE IF r1 # "QuotaExceededError" THEN done("error", << >>, << "full" >>)
        ELSE IF r2 = "ok" THEN done("partial", << noImages >>, << "full", "noImages" >>)
        ELSE IF r3 = "ok"
        THEN done("partial", << textOnly >>, << "full", "noImages", "textOnly" >>)
        ELSE done("error", << >>, << "full", "noImages", "textOnly" >>)

\* the document handleDownload writes: the scenes without audioData
handleDownload(st) ==
    [st EXCEPT !.scenes = [k \in DOMAIN st.scenes |->
                              [st.scenes[k] EXCEPT !.audioData = NoAudioData]]]

\* array.splice(i, 1) for the 0-based index i
SpliceOut(sq, i) ==
    IF i < 0 \/ i >= Len(sq) THEN sq
    ELSE SubSeq(sq, 1, i) \o SubSeq(sq, i + 2, Len(sq))

\* array.splice(i, 0, x) for the 0-based index i: past the end, x is appended
SpliceIn(sq, i, x) ==
    LET at == IF i > Len(sq) THEN Len(sq) ELSE i IN
    SubSeq(sq, 1, at) \o << x >> \o SubSeq(sq, at + 1, Len(sq))

\* moveScene: swap with the neighbour, when there is one
moveScene(st, index, direction) ==
    LET sq == st.scenes IN
    IF direction = "up" /\ index > 0
    THEN [st EXCEPT !.scenes = [sq EXCEPT ![index + 1] = sq[index],
                                          ![index] = sq[index + 1]]]
    ELSE IF direction = "down" /\ index < Len(sq) - 1
    THEN [st EXCEPT !.scenes = [sq EXCEPT ![index + 1] = sq[index + 2],
                                          ![index + 2] = sq[index + 1]]]
    ELSE st

\* a handleDrop that corrects the drop index for the scene taken out
handleDrop_Shifted(st, draggedIndex, dropIndex) ==
    IF draggedIndex # NoIndex /\ draggedIndex # dropIndex
    THEN LET movedScene == st.scenes[draggedIndex + 1]
             rest == SpliceOut(st.scenes, draggedIndex)
             at == IF draggedIndex < dropIndex THEN dropIndex - 1 ELSE dropIndex
         IN  [st EXCEPT !.scenes = SpliceIn(rest, at, movedScene)]
    ELSE st

\* handleDrop, the story's part: take the dragged scene out, put it in at dropIndex
handleDrop(st, draggedIndex, dropIndex) ==
    IF draggedIndex # NoIndex /\ draggedIndex # dropIndex
    THEN LET movedScene == st.scenes[draggedIndex + 1]
             rest == SpliceOut(st.scenes, draggedIndex)
         IN  [st EXCEPT !.scenes = SpliceIn(rest, dropIndex, movedScene)]
    ELSE st

plVars == << story, pl, plHist >>
exVars == << ex, appState, load, ed, gen, dec >>
vars == << audioContext, ctxState, resumeReq, amb, calls, story, pl, plHist, ex, appState,
          load, ed, gen, dec >>

\* the stories played: every scene with or without narration, one transition
\* setting for all scenes of a story
Stories ==
    UNION {[scenes : [1..n -> {Scene(a, t, "ok") : a \in {0, NarrationMs}}],
            backgroundMusic : PlayerMoods] : n \in 1..MaxScenes, t \in TransChoices}

PlInit ==
    /\ audioContext = getAudioContext(NoContext)
    /\ ctxState \in {"suspended", "running"}
    /\ resumeReq = FALSE
    /\ amb = NewAmbient
    /\ calls = << >>
    /\ story \in Stories
    /\ pl = NewPlayer
    /\ plHist = NewHist
    /\ ex = NewExporter
    /\ appState = "PLAYING"
    /\ load = NoLoad
    /\ dec = NoDecode
    /\ gen = NewGen
    /\ ed = NewEditor

\* the mount effects: new AmbientGenerator, play(mood), playScene(0), mute effect
PlMount ==
    /\ ~pl.mounted
    /\ LET real == story.backgroundMusic # "none" /\ story.backgroundMusic # ""
           a == IF real THEN play(NewAmbient, story.backgroundMusic) ELSE NewAmbient
           p == playScene([pl EXCEPT !.mounted = TRUE], 0, ctxState = "running")
       IN  /\ amb' = setVolume(a, IF pl.isMuted THEN 0 ELSE TARGET_GAIN)
           /\ pl' = p
           /\ resumeReq' = (ResumeAfterPlay(story.backgroundMusic) \/ ResumeAfter(p))
           /\ calls' = IF real THEN Append(calls, Call("play", story.backgroundMusic, a.gen))
                       ELSE calls
    /\ plHist' = Started(plHist, 0, "mount")
    /\ audioContext' = getAudioContext(audioContext)
    /\ UNCHANGED << ctxState, story, exVars >>

PlCanAct == pl.mounted /\ plHist.userActs < MaxUserActs

PlPlayPause ==
    /\ PlCanAct
    /\ pl' = handlePlayPause(pl, ctxState = "running")
    /\ amb' = playPauseMusic(amb, pl)
    /\ resumeReq' = ResumeAfter(pl')
    /\ plHist' = IF pl.isPlaying THEN UserActed(plHist, "pause")
                 ELSE Started(UserActed(plHist, "play"), pl'.currentSceneIndex, "user")
    /\ UNCHANGED << audioContext, ctxState, calls, story, exVars >>

PlNextButton ==
    /\ PlCanAct
    /\ pl' = handleNext(pl, ctxState = "running")
    /\ resumeReq' = ResumeAfter(pl')
    /\ plHist' = IF pl' = pl THEN UserActed(plHist, "next")
                 ELSE Started(UserActed(plHist, "next"), pl'.currentSceneIndex, "user")
    /\ UNCHANGED << audioContext, ctxState, amb, calls, story, exVars >>

PlPreviousButton ==
    /\ PlCanAct
    /\ pl' = handlePrevious(pl, ctxState = "running")
    /\ resumeReq' = ResumeAfter(pl')
    /\ plHist' = IF pl' = pl THEN UserActed(plHist, "previous")
                 ELSE Started(UserActed(plHist, "previous"), pl'.currentSceneIndex, "user")
    /\ UNCHANGED << audioContext, ctxState, amb, calls, story, exVars >>

\* the Watch Again button, rendered when isFinished
PlWatchAgain ==
    /\ PlCanAct
    /\ pl.isFinished
    /\ pl' = playScene(pl, 0, ctxState = "running")
    /\ resumeReq' = ResumeAfter(pl')
    /\ plHist' = Started(UserActed(plHist, "again"), 0, "user")
    /\ UNCHANGED << audioContext, ctxState, amb, calls, story, exVars >>

\* the mute button and the effect on [isMuted]
PlToggleMute ==
    /\ pl.mounted
    /\ pl' = [pl EXCEPT !.isMuted = ~pl.isMuted]
    /\ amb' = setVolume(amb, IF pl'.isMuted THEN 0 ELSE TARGET_GAIN)
    /\ plHist' = [plHist EXCEPT !.touched = TRUE, !.advLog = << >>,
                                !.clock = 0, !.timeline = << >>]
    /\ UNCHANGED << audioContext, ctxState, resumeReq, calls, story, exVars >>

\* a window.setTimeout callback of the player runs
PlTimerFire ==
    \E t \in pl.timers :
        /\ t.left = 0
        /\ LET p == [pl EXCEPT !.timers = pl.timers \ {t}] IN
           IF t.kind = "advance"
           THEN /\ pl' = advanceNext(p, t.arg)
                /\ amb' = advanceMusic(amb, t.arg)
                /\ calls' = IF amb' # amb THEN Append(calls, Call("stop", "none", amb.gen))
                            ELSE calls
                /\ plHist' = Advanced(plHist, pl, pl', t.arg, FALSE)
                /\ UNCHANGED resumeReq
           ELSE /\ pl' = playScene(p, t.arg, ctxState = "running")
                /\ resumeReq' = ResumeAfter(pl')
                /\ plHist' = Started(plHist, t.arg, "timer")
                /\ UNCHANGED << amb, calls >>
        /\ UNCHANGED << audioContext, ctxState, story, exVars >>

\* a narration source reaches the end of its buffer: source.onended
PlSourceEnded ==
    \E s \in pl.sources :
        /\ s.left = 0
        /\ LET p == [pl EXCEPT !.sources = pl.sources \ {s}] IN
           IF pl.isPlayingRef
           THEN /\ pl' = advanceNext(p, s.scene)
                /\ amb' = advanceMusic(amb, s.scene)
                /\ calls' = IF amb' # amb THEN Append(calls, Call("stop", "none", amb.gen))
                            ELSE calls
                /\ plHist' = Advanced(plHist, pl, pl', s.scene,
                                      s.id # pl.audioSourceRef
                                          \/ s.scene # pl.currentSceneIndex)
           ELSE /\ pl' = p
                /\ UNCHANGED << amb, calls, plHist >>
        /\ UNCHANGED << audioContext, ctxState, resumeReq, story, exVars >>

\* one animation frame: the pending callbacks of both nesting levels run
PlFrame ==
    /\ pl.rafOuter \/ pl.rafInner
    /\ pl' = [pl EXCEPT !.layoutStage = IF pl.rafInner THEN "active" ELSE @,
                        !.rafInner = pl.rafOuter,
                        !.rafOuter = FALSE]
    /\ UNCHANGED << audioContext, ctxState, resumeReq, amb, calls, story, plHist, exVars >>

\* the context serves the resume requests: its state becomes running and the
\* playScene calls waiting at await ctx.resume() continue
PlResumed ==
    /\ resumeReq
    /\ ctxState' = "running"
    /\ UNCHANGED audioContext
    /\ resumeReq' = FALSE
    /\ pl' = continueAll(pl)
    /\ plHist' = Sounded(plHist, pl.awaiting)
    /\ UNCHANGED << amb, calls, story, exVars >>

Lefts(set) == {x.left : x \in set}

SetMin(S) == CHOOSE x \in S : \A y \in S : x <= y

\* time until the next timer or narration end of the player, or the quantum
plStep == SetMin({Quantum, ambStep(amb)} \cup Lefts(pl.timers) \cup Lefts(pl.sources))

PlTick ==
    /\ pl.mounted
    /\ plStep > 0
    /\ pl.timers # {} \/ pl.sources # {} \/ amb.timers # << >> \/ amb.ramp.left > 0
    /\ pl' = [pl EXCEPT !.timers = {[t EXCEPT !.left = t.left - plStep] : t \in pl.timers},
                        !.sources = {[s EXCEPT !.left = s.left - plStep] : s \in pl.sources}]
    /\ amb' = ambAdvance(amb, plStep)
    /\ calls' = Aged(calls)
    /\ plHist' = Ticked(plHist, plStep)
    /\ UNCHANGED << audioContext, ctxState, resumeReq, story, exVars >>

PlAmbTimer == AmbTimer /\ UNCHANGED << plVars, exVars >>

PlNext ==
    \/ PlMount
    \/ PlPlayPause
    \/ PlNextButton
    \/ PlPreviousButton
    \/ PlWatchAgain
    \/ PlToggleMute
    \/ PlTimerFire
    \/ PlSourceEnded
    \/ PlFrame
    \/ PlResumed
    \/ PlAmbTimer
    \/ PlTick

SpecPlayer == PlInit /\ [][PlNext]_vars

\* ------------------------ unattended playback of stories as the editor stores them
AutoStories ==
    UNION {[scenes : [1..n -> {Scene(a, t, "ok") : a \in {0, NarrationMs}}],
            backgroundMusic : PlayerMoods] :
              n \in 1..MaxScenes, t \in StoredDurations \cup {NoTransition}}

AutoInit ==
    /\ audioContext = getAudioContext(NoContext)
    /\ ctxState \in {"suspended", "running"}
    /\ resumeReq = FALSE
    /\ amb = NewAmbient
    /\ calls = << >>
    /\ story \in AutoStories
    /\ pl = NewPlayer
    /\ plHist = NewHist
    /\ ex = NewExporter
    /\ appState = "PLAYING"
    /\ load = NoLoad
    /\ dec = NoDecode
    /\ gen = NewGen
    /\ ed = NewEditor

AutoNext ==
    \/ PlMount
    \/ PlTimerFire
    \/ PlSourceEnded
    \/ PlFrame
    \/ PlResumed
    \/ PlAmbTimer
    \/ PlTick

SpecAuto == AutoInit /\ [][AutoNext]_vars

\* ------------------------------------------------------- the story editor
\* updateSceneTransition: scenes[index].transition = { type, duration }
updateSceneTransition(st, index, duration) ==
    [st EXCEPT !.scenes[index + 1].transition = duration]

\* the stories handed to the editor: generated scenes carry a duration of
\* 1000 ms, scenes of older drafts carry no transition
EditorStories ==
    UNION {[scenes : [1..n -> {Scene(a, t, "ok") : a \in {0, NarrationMs},
                                                   t \in {NoTransition, 1000}}],
            backgroundMusic : PlayerMoods] : n \in 1..MaxScenes}

EdInit ==
    /\ audioContext = getAudioContext(NoContext)
    /\ ctxState \in {"suspended", "running"}
    /\ resumeReq = FALSE
    /\ amb = NewAmbient
    /\ calls = << >>
    /\ story \in EditorStories
    /\ pl = NewPlayer
    /\ plHist = NewHist
    /\ ex = NewExporter
    /\ appState = "REVIEW_STORY"
    /\ load = NoLoad
    /\ dec = NoDecode
    /\ gen = NewGen
    /\ ed = NewEditor

edOther == << audioContext, ctxState, resumeReq, amb, calls, pl, plHist, ex, appState,
             load, gen, dec >>
edVars == << edOther, ed >>

\* onChange of the duration field of scene index
EdDurationInput(index, text) ==
    /\ appState = "REVIEW_STORY"
    /\ story' = updateSceneTransition(story, index, parseInt(text))
    /\ UNCHANGED edVars

\* onChange of the transition type select of scene index: the duration passed
\* on is scene.transition?.duration || 1000
EdTypeSelect(index) ==
    /\ appState = "REVIEW_STORY"
    /\ story' = updateSceneTransition(story, index, TransitionDuration(SceneAt(index)))
    /\ UNCHANGED edVars

EdNext ==
    \/ \E index \in 0..(NumScenes - 1), text \in FieldTexts : EdDurationInput(index, text)
    \/ \E index \in 0..(NumScenes - 1) : EdTypeSelect(index)

SpecEditor == EdInit /\ [][EdNext]_vars

\* ------------------------------------------------- reordering scenes

MaxEditScenes == 3      \* scenes of a story that is reordered

\* the stories reordered: scenes with their identifiers, with or without
\* narration and transition
ReorderStories ==
    UNION {[scenes : {sq \in [1..n -> [id : 1..n, audio : {0, NarrationMs},
                                       transition : {NoTransition}, image : {"ok"}]] :
                         \A k \in 1..n : sq[k].id = k},
            backgroundMusic : {"none"}] : n \in 1..MaxEditScenes}

ReorderInit ==
    /\ audioContext = getAudioContext(NoContext)
    /\ ctxState = "running"
    /\ resumeReq = FALSE
    /\ amb = NewAmbient
    /\ calls = << >>
    /\ story \in ReorderStories
    /\ pl = NewPlayer
    /\ plHist = NewHist
    /\ ex = NewExporter
    /\ appState = "REVIEW_STORY"
    /\ load = NoLoad
    /\ dec = NoDecode
    /\ gen = NewGen
    /\ ed = [NewEditor EXCEPT !.original = story.scenes]

\* the arrow buttons of scene index
EdMoveScene(index, direction) ==
    /\ appState = "REVIEW_STORY"
    /\ story' = moveScene(story, index, direction)
    /\ UNCHANGED edVars

\* handleDragStart
EdDragStart(index) ==
    /\ appState = "REVIEW_STORY"
    /\ ed' = [ed EXCEPT !.draggedIndex = index]
    /\ UNCHANGED << story, edOther >>

\* handleDragOver
EdDragOver(index) ==
    /\ appState = "REVIEW_STORY"
    /\ ed' = IF ed.draggedIndex = index THEN ed ELSE [ed EXCEPT !.dragOverIndex = index]
    /\ UNCHANGED << story, edOther >>

\* handleDragLeave
EdDragLeave ==
    /\ appState = "REVIEW_STORY"
    /\ ed' = [ed EXCEPT !.dragOverIndex = NoIndex]
    /\ UNCHANGED << story, edOther >>

\* handleDrop
EdDrop(dropIndex) ==
    /\ appState = "REVIEW_STORY"
    /\ story' = handleDrop(story, ed.draggedIndex, dropIndex)
    /\ ed' = [ed EXCEPT !.draggedIndex = NoIndex, !.dragOverIndex = NoIndex]
    /\ UNCHANGED edOther

ReorderNext ==
    \/ \E index \in 0..(NumScenes - 1), direction \in {"up", "down"} :
          EdMoveScene(index, direction)
    \/ \E index \in 0..(NumScenes - 1) : EdDragStart(index)
    \/ \E index \in 0..(NumScenes - 1) : EdDragOver(index)
    \/ EdDragLeave
    \/ \E index \in 0..(NumScenes - 1) : EdDrop(index)

SpecReorder == ReorderInit /\ [][ReorderNext]_vars

\* ------------------------------------------------- saving and downloading

MaxSaves == 2           \* handleSave calls in one run

\* the stories saved: every scene with or without image, raw audio and buffer
SaveStories ==
    UNION {[scenes : {sq \in [1..n -> [id : 1..n,
                                       imageData : {NoImage, << "i", "m", "g", "0" >>},
                                       audioBase64 : {NoPayload, << "A", "A", "A", "=" >>},
                                       audioData : {NoAudioData, 1}]] :
                         \A k \in 1..n : sq[k].id = k},
            backgroundMusic : {"none"}] : n \in 1..MaxScenes}

\* what the browser's storage has room for, from nothing to every story
Capacities == {0} \cup {DocSize(prepareStoryForSave(st, i, a)) :
                           st \in SaveStories, i \in BOOLEAN, a \in BOOLEAN}

SaveInit ==
    /\ audioContext = getAudioContext(NoContext)
    /\ ctxState = "running"
    /\ resumeReq = FALSE
    /\ amb = NewAmbient
    /\ calls = << >>
    /\ story \in SaveStories
    /\ pl = NewPlayer
    /\ plHist = NewHist
    /\ ex = NewExporter
    /\ appState = "REVIEW_STORY"
    /\ load = NoLoad
    /\ dec = NoDecode
    /\ gen = NewGen
    /\ ed \in {[NewEditor EXCEPT !.storage = [capacity |-> c, denied |-> d]] :
                   c \in Capacities, d \in BOOLEAN}

\* the Save Draft button
EdSave ==
    /\ appState = "REVIEW_STORY"
    /\ ed.saves < MaxSaves
    /\ ed' = handleSave(ed, story)
    /\ UNCHANGED << story, edOther >>

\* the Download button
EdDownload ==
    /\ appState = "REVIEW_STORY"
    /\ ed' = [ed EXCEPT !.downloaded = << handleDownload(story) >>]
    /\ UNCHANGED << story, edOther >>

\* the 3000 ms timer of a handleSave call fires
EdSaveTimer ==
    /\ ed.timers # << >>
    /\ Head(ed.timers) = 0
    /\ ed' = [ed EXCEPT !.timers = Tail(@),
                        !.saveStatus = IF @ = "error" THEN "error" ELSE "idle"]
    /\ UNCHANGED << story, edOther >>

EdTick ==
    /\ ed.timers # << >>
    /\ Head(ed.timers) > 0
    /\ LET d == SetMin({Quantum, Head(ed.timers)}) IN
       ed' = [ed EXCEPT !.timers = [k \in 1..Len(@) |-> @[k] - d]]
    /\ UNCHANGED << story, edOther >>

SaveNext ==
    \/ EdSave
    \/ EdDownload
    \/ EdSaveTimer
    \/ EdTick

SpecSave == SaveInit /\ [][SaveNext]_vars

\* ------------------------------------------------- generating a story

GenInit ==
    /\ audioContext = NoContext
    /\ ctxState = "running"
    /\ resumeReq = FALSE
    /\ amb = NewAmbient
    /\ calls = << >>
    /\ story = NoStory
    /\ pl = NewPlayer
    /\ plHist = NewHist
    /\ ex = NewExporter
    /\ appState = "IDLE"
    /\ load = NoLoad
    /\ dec = NoDecode
    /\ gen = NewGen
    /\ ed = NewEditor

genOther == << ctxState, resumeReq, amb, calls, pl, plHist, ex, load, ed, dec >>

CurrentRun == Len(gen.runs)

\* handleGenerate up to await generateStoryScript(prompt)
GenStart ==
    /\ appState = "IDLE"
    /\ Len(gen.runs) < MaxRuns
    /\ appState' = "GENERATING_SCRIPT"
    /\ gen' = [gen EXCEPT !.runs = Append(@, NewRun),
                          !.error = "",
                          !.progress = [totalScenes |-> 0, completedScenes |-> 0]]
    /\ UNCHANGED << audioContext, story, genOther >>

\* generateStoryScript returns a story of n scenes: setStory, GENERATING_ASSETS,
\* and every scene's image and audio call goes out
GenScriptDone(n) ==
    /\ gen.runs # << >>
    /\ gen.runs[CurrentRun].status = "script"
    /\ story' = [scenes |-> [k \in 1..n |-> ScriptScene(k)], backgroundMusic |-> "ethereal"]
    /\ appState' = "GENERATING_ASSETS"
    /\ gen' = [gen EXCEPT !.runs[CurrentRun] =
                              [@ EXCEPT !.status = "assets", !.n = n,
                                        !.pending = {GenCall(kind, k) :
                                                        kind \in {"image", "audio"},
                                                        k \in 1..n}],
                          !.progress = [totalScenes |-> n, completedScenes |-> 0]]
    /\ UNCHANGED << audioContext, genOther >>

\* generateStoryScript throws: the catch sets the error and ERROR
GenScriptFailed ==
    /\ gen.runs # << >>
    /\ gen.runs[CurrentRun].status = "script"
    /\ appState' = "ERROR"
    /\ gen' = [gen EXCEPT !.runs[CurrentRun] = [@ EXCEPT !.status = "error", !.failed = TRUE],
                          !.error = "No script generated"]
    /\ UNCHANGED << audioContext, story, genOther >>

\* call c of run r settles, with a result (ok) or with an error
GenCallDone(r, c, ok) ==
    /\ r \in 1..Len(gen.runs)
    /\ c \in gen.runs[r].pending
    /\ LET run == gen.runs[r]
           new == callSettled(run, c, ok)
           ends == run.status = "assets" /\ new.status # "assets"
       IN  /\ gen' = [gen EXCEPT
                         !.runs[r] = new,
                         !.progress = IF ok /\ Sibling(c) \in run.got
                                      THEN sceneCompleted(@, run) ELSE @,
                         !.error = IF ends /\ new.status = "error"
                                   THEN "No content generated" ELSE @]
           /\ appState' = IF ~ends THEN appState
                          ELSE IF new.status = "error" THEN "ERROR" ELSE "REVIEW_STORY"
           /\ story' = IF ends /\ new.status = "review"
                       THEN [story EXCEPT !.scenes = [k \in 1..run.n |-> EnrichedScene(k)]]
                       ELSE story
           \* generateSceneAudio decodes with the shared context
           /\ audioContext' = IF ok /\ c.kind = "audio" THEN getAudioContext(audioContext)
                              ELSE audioContext
    /\ UNCHANGED genOther

\* the Try Again button of the error screen: resetApp
GenReset ==
    /\ appState = "ERROR"
    /\ appState' = "IDLE"
    /\ story' = NoStory
    /\ gen' = [gen EXCEPT !.progress = NoProgress, !.error = ""]
    /\ UNCHANGED << audioContext, genOther >>

GenNext ==
    \/ GenStart
    \/ \E n \in 1..MaxScenes : GenScriptDone(n)
    \/ GenScriptFailed
    \/ \E r \in 1..MaxRuns, kind \in {"image", "audio"}, k \in 1..MaxScenes, ok \in BOOLEAN :
          GenCallDone(r, GenCall(kind, k), ok)
    \/ GenReset

SpecGenerate == GenInit /\ [][GenNext]_vars

\* ------------------------------------------------- decoding PCM bytes

MaxBytes == 4           \* length of the byte arrays decoded
MaxChannels == 2        \* numChannels of a decodeAudioData call
ByteValues == {0, 1, 128, 255}

RECURSIVE ByteArrays(_)
ByteArrays(n) ==
    IF n = 0 THEN {<< >>}
    ELSE LET shorter == ByteArrays(n - 1) IN
         shorter \cup {Append(a, b) : a \in {x \in shorter : Len(x) = n - 1},
                                      b \in ByteValues}

DecodeInit ==
    /\ audioContext = getAudioContext(NoContext)
    /\ ctxState = "running"
    /\ resumeReq = FALSE
    /\ amb = NewAmbient
    /\ calls = << >>
    /\ story = NoStory
    /\ pl = NewPlayer
    /\ plHist = NewHist
    /\ ex = NewExporter
    /\ appState = "IDLE"
    /\ load = NoLoad
    /\ ed = NewEditor
    /\ gen = NewGen
    /\ dec \in {[NoDecode EXCEPT !.data = a, !.numChannels = c] :
                    a \in ByteArrays(MaxBytes), c \in 1..MaxChannels}

\* decodeAudioData(data, ctx, 24000, numChannels), a first and a second time
DecDecode ==
    /\ dec.calls < 2
    /\ dec' = IF dec.calls = 0
              THEN [dec EXCEPT !.calls = 1, !.first = decodePcm(dec.data, dec.numChannels)]
              ELSE [dec EXCEPT !.calls = 2, !.second = decodePcm(dec.data, dec.numChannels)]
    /\ UNCHANGED << audioContext, ctxState, resumeReq, amb, calls, story, pl, plHist, ex,
                    appState, load, ed, gen >>

DecodeNext == DecDecode

SpecDecode == DecodeInit /\ [][DecodeNext]_vars

\* timers and ended sources run their callbacks, the clock advances, and the
\* context serves a resume request (the player is mounted by a click)
SpecAutoFair ==
    /\ SpecAuto
    /\ WF_vars(PlMount)
    /\ WF_vars(PlTimerFire)
    /\ WF_vars(PlSourceEnded)
    /\ WF_vars(PlResumed)
    /\ WF_vars(PlAmbTimer)
    /\ WF_vars(PlTick)

\* ------------------------------------------------- the exporter's actions
ExportStories ==
    UNION {[scenes : [1..n -> {Scene(a, NoTransition, img) :
                                  a \in {0, NarrationMs, ExportNarrationMs},
                                  img \in ImageChoices}],
            backgroundMusic : PlayerMoods] : n \in 1..MaxScenes}

ExInit ==
    /\ audioContext = getAudioContext(NoContext)
    /\ ctxState \in {"suspended", "running"}
    /\ resumeReq = FALSE
    /\ amb = NewAmbient
    /\ calls = << >>
    /\ story \in ExportStories
    /\ pl = NewPlayer
    /\ plHist = NewHist
    /\ ex = NewExporter
    /\ appState = "EXPORTING"
    /\ load = NoLoad
    /\ dec = NoDecode
    /\ gen = NewGen
    /\ ed = NewEditor

exOther == << amb, calls, story, pl, plHist, load, ed, gen, dec >>

\* the mount effect: startExport up to await ctx.resume(), or further
ExMount ==
    /\ appState = "EXPORTING"
    /\ ex.pc = "init"
    /\ IF ctxState = "suspended"
       THEN /\ ex' = [ex EXCEPT !.mounted = TRUE, !.pc = "awaitResume"]
            /\ resumeReq' = TRUE
       ELSE /\ ex' = startExport([ex EXCEPT !.mounted = TRUE])
            /\ UNCHANGED resumeReq
    /\ audioContext' = getAudioContext(audioContext)
    /\ UNCHANGED << ctxState, appState, exOther >>

ExResumed ==
    /\ resumeReq
    /\ ctxState' = "running"
    /\ UNCHANGED audioContext
    /\ resumeReq' = FALSE
    /\ ex' = IF ex.pc = "awaitResume" THEN startExport(ex) ELSE ex
    /\ UNCHANGED << appState, exOther >>

\* img.onload of the scene's image
ExImageLoaded ==
    /\ ex.pc = "awaitImage"
    /\ SceneAt(ex.i).image = "ok"
    /\ ex' = startScene(ex)
    /\ UNCHANGED << audioContext, ctxState, resumeReq, appState, exOther >>

\* an animation frame runs a pending render callback
ExFrame ==
    /\ \E f \in ex.frames :
          ex' = render(ex, f, IF ex.sceneTimer >= 0 /\ f.scene = ex.i
                              THEN sceneDuration(SceneAt(f.scene)) - ex.sceneTimer
                              ELSE sceneDuration(SceneAt(f.scene)))
    /\ UNCHANGED << audioContext, ctxState, resumeReq, appState, exOther >>

ExSceneTimer ==
    /\ ex.pc = "awaitScene"
    /\ ex.sceneTimer = 0
    /\ ex' = sceneTimeout(ex)
    /\ UNCHANGED << audioContext, ctxState, resumeReq, appState, exOther >>

\* the recorder delivers a stop event
ExRecorderStop ==
    /\ ex.stopEvents > 0
    /\ ex' = onstop(ex)
    /\ UNCHANGED << audioContext, ctxState, resumeReq, appState, exOther >>

\* setTimeout(onComplete, 2000) fires: the App returns to the review state
ExComplete ==
    /\ ex.completeTimers # << >>
    /\ Head(ex.completeTimers) = 0
    /\ appState' = "REVIEW_STORY"
    /\ ex' = LET y == [ex EXCEPT !.completeTimers = Tail(@)] IN
             IF y.mounted THEN cleanup(y) ELSE y
    /\ UNCHANGED << audioContext, ctxState, resumeReq, exOther >>

\* the Cancel Export button, rendered while not done
ExCancel ==
    /\ ex.mounted
    /\ ~ex.isDone
    /\ appState' = "REVIEW_STORY"
    /\ ex' = cleanup(ex)
    /\ UNCHANGED << audioContext, ctxState, resumeReq, exOther >>

\* the editor's Play button, once the App is back in the review state:
\* onPlay={() => setAppState(AppState.PLAYING)}
ExEditorPlay ==
    /\ appState = "REVIEW_STORY"
    /\ appState' = "PLAYING"
    /\ UNCHANGED << audioContext, ctxState, resumeReq, ex, exOther >>

\* a narration source of the export reaches the end of its buffer
ExNarrationEnded ==
    /\ \E n \in ex.narrations :
          /\ n.left = 0
          /\ ex' = [ex EXCEPT !.narrations = @ \ {n}]
    /\ UNCHANGED << audioContext, ctxState, resumeReq, appState, exOther >>

exStep ==
    SetMin({Quantum} \cup Lefts(ex.narrations) \cup Range(ex.completeTimers)
           \cup (IF ex.sceneTimer >= 0 THEN {ex.sceneTimer} ELSE {}))

ExTick ==
    /\ exStep > 0
    /\ ex.sceneTimer >= 0 \/ ex.narrations # {} \/ ex.completeTimers # << >>
    /\ ex' = [ex EXCEPT
                !.sceneTimer = IF @ >= 0 THEN @ - exStep ELSE @,
                !.narrations = {[n EXCEPT !.left = n.left - exStep] : n \in @},
                !.completeTimers = [k \in 1..Len(@) |-> @[k] - exStep]]
    /\ UNCHANGED << audioContext, ctxState, resumeReq, appState, exOther >>

ExNext ==
    \/ ExMount
    \/ ExResumed
    \/ ExImageLoaded
    \/ ExFrame
    \/ ExSceneTimer
    \/ ExRecorderStop
    \/ ExComplete
    \/ ExCancel
    \/ ExEditorPlay
    \/ ExNarrationEnded
    \/ ExTick

SpecExport == ExInit /\ [][ExNext]_vars

\* the export with the browser delivering every timer, event and frame that is
\* due; the Cancel Export button is the user's and is not forced
SpecExportFair ==
    /\ ExInit /\ [][ExNext]_vars
    /\ WF_vars(ExMount)
    /\ WF_vars(ExResumed)
    /\ WF_vars(ExImageLoaded)
    /\ WF_vars(ExFrame)
    /\ WF_vars(ExSceneTimer)
    /\ WF_vars(ExRecorderStop)
    /\ WF_vars(ExComplete)
    /\ WF_vars(ExNarrationEnded)
    /\ WF_vars(ExTick)

\* ------------------------------------------- the generator on its own

AmbInit ==
    /\ story = [scenes |-> << >>, backgroundMusic |-> "none"]
    /\ pl = NewPlayer
    /\ plHist = NewHist
    /\ ex = NewExporter
    /\ appState = "REVIEW_STORY"
    /\ load = NoLoad
    /\ dec = NoDecode
    /\ gen = NewGen
    /\ ed = NewEditor
    /\ audioContext = getAudioContext(NoContext)
    /\ ctxState \in {"suspended", "running"}
    /\ resumeReq = FALSE
    /\ amb = NewAmbient
    /\ calls = << >>

AmbNext ==
    \/ \E mood \in Moods : AmbPlay(mood) /\ UNCHANGED << plVars, exVars >>
    \/ AmbStop /\ UNCHANGED << plVars, exVars >>
    \/ \E v \in {0, TARGET_GAIN} : AmbSetVolume(v) /\ UNCHANGED << plVars, exVars >>
    \/ AmbTimer /\ UNCHANGED << plVars, exVars >>
    \/ AmbResumed /\ UNCHANGED << plVars, exVars >>
    \/ AmbTick /\ UNCHANGED << plVars, exVars >>

SpecAmbient == AmbInit /\ [][AmbNext]_vars

\* --------------------------------------- the callers of getAudioContext
MaxCtxCalls == 3     \* getAudioContext calls made in one page session

\* new AmbientGenerator(), playScene, startExport / playAllScenes, and the
\* decoding of narration audio in App
Callers == {"synthesizer", "scheduler", "exporter", "decoder"}

CtxInit ==
    /\ audioContext = NoContext
    /\ ctxState \in {"suspended", "running"}
    /\ resumeReq = FALSE
    /\ amb = NewAmbient
    /\ calls = << >>
    /\ story = [scenes |-> << >>, backgroundMusic |-> "none"]
    /\ pl = NewPlayer
    /\ plHist = NewHist
    /\ ex = NewExporter
    /\ appState = "IDLE"
    /\ load = NoLoad
    /\ dec = NoDecode
    /\ gen = NewGen
    /\ ed = NewEditor

\* one caller calls getAudioContext(); got: the instance returned
CtxCall(by) ==
    /\ Len(calls) < MaxCtxCalls
    /\ audioContext' = getAudioContext(audioContext)
    /\ calls' = Append(calls, [op |-> "getAudioContext", by |-> by,
                               got |-> audioContext'.instance])
    /\ UNCHANGED << ctxState, resumeReq, amb, plVars, exVars >>

CtxNext == \E by \in Callers : CtxCall(by)

SpecContext == CtxInit /\ [][CtxNext]_vars

\* ------------------------------------------------- loading a draft

Drafts ==
    UNION {[scenes : {sq \in [1..n -> [id : 1..n,
                                       audioBase64 : DraftTexts \cup {NoPayload},
                                       audioData : {NoAudioData, PresetFrames}]] :
                         \A k \in 1..n : sq[k].id = k},
            backgroundMusic : PlayerMoods] : n \in 1..MaxDraftScenes}

LoadInit ==
    /\ audioContext = NoContext
    /\ ctxState \in {"suspended", "running"}
    /\ resumeReq = FALSE
    /\ amb = NewAmbient
    /\ calls = << >>
    /\ story = NoStory
    /\ pl = NewPlayer
    /\ plHist = NewHist
    /\ ex = NewExporter
    /\ appState = "IDLE"
    /\ load \in {[NoLoad EXCEPT !.draft = d] : d \in Drafts}
    /\ dec = NoDecode
    /\ gen = NewGen
    /\ ed = NewEditor

loadOther == << ctxState, resumeReq, amb, calls, pl, plHist, ex, ed, gen, dec >>

\* handleLoadDraft up to the await of Promise.all: each callback has run to
\* its first await, calling getAudioContext() when it decodes
LoadStart ==
    /\ appState = "IDLE"
    /\ load.pc = "idle"
    /\ appState' = "GENERATING_ASSETS"
    /\ load' = [load EXCEPT !.pc = "decoding",
                            !.pending = DOMAIN load.draft.scenes,
                            !.restored = load.draft.scenes]
    /\ audioContext' = IF \E k \in DOMAIN load.draft.scenes : NeedsDecode(load.draft.scenes[k])
                       THEN getAudioContext(audioContext) ELSE audioContext
    /\ UNCHANGED << story, loadOther >>

\* the callback of the scene at position k settles
LoadSceneSettled(k) ==
    /\ load.pc = "decoding"
    /\ k \in load.pending
    /\ LET r == restoreScene(load.draft.scenes[k]) IN
       load' = [load EXCEPT !.pending = @ \ {k},
                            !.restored[k] = r.scene,
                            !.rejected = @ \/ ~r.ok]
    /\ UNCHANGED << audioContext, appState, story, loadOther >>

\* Promise.all settles: setStory and REVIEW_STORY, or the catch and ERROR
LoadSettled ==
    /\ load.pc = "decoding"
    /\ load.pending = {} \/ load.rejected
    /\ IF load.rejected
       THEN /\ load' = [load EXCEPT !.pc = "done", !.error = "Failed to restore draft."]
            /\ appState' = "ERROR"
            /\ UNCHANGED story
       ELSE /\ load' = [load EXCEPT !.pc = "done"]
            /\ story' = [load.draft EXCEPT !.scenes = load.restored]
            /\ appState' = "REVIEW_STORY"
    /\ UNCHANGED << audioContext, loadOther >>

LoadNext ==
    \/ LoadStart
    \/ \E k \in 1..MaxDraftScenes : LoadSceneSettled(k)
    \/ LoadSettled

SpecLoad == LoadInit /\ [][LoadNext]_vars

\* ================================================================ claims

LastCall == calls[Len(calls)]

\* C1: after play(A) immediately followed by play(B), A and B real moods, once
\* every teardown timer has fired the connected and running nodes are exactly
\* the voices of B (one active subgraph, nothing of A left).
C1_PlayPlayLeavesSecondGraph ==
    (/\ Len(calls) >= 2
     /\ LastCall.op = "play" /\ LastCall.mood \in RealMoods /\ LastCall.imm
     /\ calls[Len(calls) - 1].op = "play" /\ calls[Len(calls) - 1].mood \in RealMoods
     /\ amb.timers = << >>)
    => amb.live = Range(BuildMood(LastCall.gen, LastCall.mood))

\* C2: the running and connected nodes of the generator belong to at most one
\* mood graph at any time.
C2_AtMostOneGraph == Cardinality({n.gen : n \in amb.live}) <= 1

\* C3: while the last play/stop call made on the generator is play(mood) with a
\* real mood, every node that call built is still running and connected.
C3_GraphStaysActive ==
    (calls # << >> /\ LastCall.op = "play" /\ LastCall.mood \in RealMoods)
    => Range(BuildMood(LastCall.gen, LastCall.mood)) \subseteq amb.live

\* C4: with no user input, advanceNext is called once per scene in index
\* order, at most N times, and finished is entered exactly once, with the
\* N-th call and not before.
C4_FinishedAfterNAdvances ==
    (pl.mounted /\ ~plHist.touched) =>
        /\ Len(plHist.advLog) <= NumScenes
        /\ \A k \in 1..Len(plHist.advLog) : plHist.advLog[k] = k - 1
        /\ plHist.finishes = (IF Len(plHist.advLog) = NumScenes THEN 1 ELSE 0)
        /\ pl.isFinished <=> (Len(plHist.advLog) = NumScenes)

C4_Witness ==
    /\ ~plHist.touched
    /\ pl.isFinished
    /\ NumScenes >= 2
    /\ plHist.advLog = << 0, 1 >>

C6_OneSourceOneTimer == Cardinality(pl.sources) <= 1 /\ Cardinality(pl.timers) <= 1

\* C7: the end of a narration that is no longer the current one (its source is
\* not the referenced source, or its scene is not the current scene) never
\* calls advanceNext.
C7_NoStaleAdvance == ~plHist.staleAdvance

\* C8: a pause step stops the referenced narration, cancels the referenced
\* timer, clears playing, zeroes the music volume and keeps index and finished;
\* and advanceNext is never called while paused.
C8_PauseFrame ==
    [][/\ (plHist'.userActs = plHist.userActs + 1 /\ plHist'.lastAct = "pause") =>
            /\ pl'.sources = {s \in pl.sources : s.id # pl.audioSourceRef}
            /\ pl'.timers = {t \in pl.timers : t.id # pl.transitionTimeoutRef}
            /\ ~pl'.isPlaying /\ ~pl'.isPlayingRef
            /\ amb'.gainVal = 0
            /\ pl'.currentSceneIndex = pl.currentSceneIndex
            /\ pl'.isFinished = pl.isFinished
       /\ ~plHist'.pausedAdvance]_vars

\* C9: a Play/Pause step taken while not playing runs playScene on the current
\* index (on 0 when finished): finished is cleared, playing set, the stage is
\* enter, the music volume is 0 if muted and 0.08 otherwise, and the scene's
\* narration starts from time zero (or waits for the context to resume), or the
\* 3000 ms fallback is armed when the scene has no narration.
C9_ResumeRestartsScene ==
    [][(plHist'.userActs = plHist.userActs + 1 /\ plHist'.lastAct = "play") =>
         LET i == IF pl.isFinished THEN 0 ELSE pl.currentSceneIndex IN
         /\ pl'.currentSceneIndex = i
         /\ ~pl'.isFinished /\ pl'.isPlaying /\ pl'.isPlayingRef
         /\ pl'.layoutStage = "enter"
         /\ amb'.gainVal = (IF pl.isMuted THEN 0 ELSE TARGET_GAIN)
         /\ IF SceneAt(i).audio = 0
            THEN \E t \in pl'.timers :
                    /\ t.id = pl'.transitionTimeoutRef
                    /\ t.kind = "advance" /\ t.arg = i /\ t.left = FALLBACK_MS
            ELSE IF ctxState = "running"
            THEN \E s \in pl'.sources :
                    /\ s.id = pl'.audioSourceRef
                    /\ s.scene = i /\ s.left = SceneAt(i).audio
            ELSE pl'.awaiting # << >> /\ pl'.awaiting[Len(pl'.awaiting)] = i]_vars

C9_Witness ==
    /\ plHist.lastAct = "play"
    /\ plHist.finishes >= 1
    /\ NumScenes >= 2
    /\ pl.isPlaying /\ ~pl.isFinished
    /\ pl.currentSceneIndex = 0
    /\ pl.layoutStage = "enter"

\* C10: an export aborted before its natural completion triggers no download
\* and is never marked complete.
C10_AbortDiscardsOutput ==
    ex.aborted => (ex.downloads = 0 /\ ~ex.isDone /\ ex.completeTimers = << >>)

\* C11: once an export has been aborted before its natural completion the
\* recorder is not recording and no render callback of the export runs.
C11_AbortStopsRendering ==
    [][ex.aborted => (ex.recorder # "recording" /\ ~ExFrame)]_vars

\* C12: the export progress never decreases, and once the loop over the scenes
\* has wrapped up in an export that was not aborted the progress is exactly
\* 100 % (100000 thousandths of a percent).
C12_ProgressMonotoneTo100 ==
    [][/\ ex'.progress >= ex.progress
       /\ (ex'.pc = "done" /\ ~ex'.aborted) => ex'.progress = 100000]_vars

\* the last entry of timeline tl before position k with this event and scene
LastBefore(tl, k, ev, scene) ==
    LET S == {j \in 1..(k - 1) : tl[j].ev = ev /\ tl[j].scene = scene}
    IN  IF S = {} THEN 0 ELSE CHOOSE j \in S : \A m \in S : m <= j

\* the story of the timeline scenario: 2000 ms of narration, then a silent
\* scene whose transition lasts 1000 ms
TimelineStory ==
    /\ NumScenes = 2
    /\ SceneAt(0).audio = 2000
    /\ SceneAt(1).audio = 0
    /\ TransitionDuration(SceneAt(1)) = 1000

\* C13: in a run without user input, advanceNext(i) is called exactly 3000 ms
\* after playScene(i) when scene i has no narration and at the end of the
\* narration otherwise; playScene(i+1) is called half the transition duration
\* after the exit of scene i began; when finished is entered the ambient music
\* is stopped. In the scenario (narration of 2000 ms started at 0, then a
\* silent scene with a 1000 ms transition) exit begins at 2000, scene 2 starts
\* at 2500 and finished is entered at 5500.
C13_Timeline ==
    LET tl == plHist.timeline IN
    \A k \in 1..Len(tl) :
        LET e == tl[k]
            silent == SceneAt(e.scene).audio = 0
        IN
        /\ e.ev \in {"exit", "finished"} =>
              LET j == LastBefore(tl, k, IF silent THEN "play" ELSE "sound", e.scene)
              IN  /\ j > 0
                  /\ e.at = tl[j].at + (IF silent THEN 3000 ELSE SceneAt(e.scene).audio)
        /\ (e.ev = "play" /\ e.scene > 0) =>
              LET j == LastBefore(tl, k, "exit", e.scene - 1)
              IN  /\ j > 0
                  /\ e.at = tl[j].at + TransitionDuration(SceneAt(e.scene)) \div 2
        /\ (e.ev = "finished" /\ plHist.clock = e.at) =>
              /\ pl.isFinished /\ ~pl.isPlaying
              /\ amb.ramp = [to |-> 0, left |-> FADE_OUT_MS]
              /\ amb.timers # << >> /\ amb.timers[Len(amb.timers)] = TEARDOWN_MS
        /\ (TimelineStory /\ Len(tl) >= 2
               /\ tl[2] = [ev |-> "sound", scene |-> 0, at |-> 0]) =>
              /\ (e.ev = "exit" /\ e.scene = 0) => e.at = 2000
              /\ (e.ev = "play" /\ e.scene = 1) => e.at = 2500
              /\ e.ev = "finished" => e.at = 5500

C13_Witness ==
    /\ TimelineStory
    /\ pl.isFinished
    /\ plHist.clock = 5500
    /\ plHist.timeline =
          << [ev |-> "play", scene |-> 0, at |-> 0],
             [ev |-> "sound", scene |-> 0, at |-> 0],
             [ev |-> "exit", scene |-> 0, at |-> 2000],
             [ev |-> "play", scene |-> 1, at |-> 2500],
             [ev |-> "finished", scene |-> 1, at |-> 5500] >>

\* advanceNext(i) runs in this step, from the fallback timer or from the end
\* of the narration of scene i
AdvanceStep(i) ==
    \/ \E t \in pl.timers :
          /\ t.left = 0 /\ t.kind = "advance" /\ t.arg = i
          /\ pl' = advanceNext([pl EXCEPT !.timers = @ \ {t}], i)
    \/ \E s \in pl.sources :
          /\ s.left = 0 /\ s.scene = i /\ pl.isPlayingRef
          /\ pl' = advanceNext([pl EXCEPT !.sources = @ \ {s}], i)

\* half of the configured transition duration of a scene, 1000 ms when unset
\* (NaN is no number and counts as unset), as the delay of a setTimeout (a
\* negative delay runs at once)
HalfConfigured(sc) ==
    IF sc.transition = NoTransition \/ sc.transition = NaN THEN 1000 \div 2
    ELSE IF sc.transition < 0 THEN 0
    ELSE sc.transition \div 2

\* C14: advanceNext(i) for i not the last scene sets the stage to exit, keeps
\* the current index, and arms one timer that calls playScene(i+1) after half
\* of the transition duration stored on scene i+1 (1000 ms when it has none).
C14_AdvanceArmsHalfTransition ==
    [][\A i \in 0..(MaxScenes - 1) :
          (i < NumScenes - 1 /\ AdvanceStep(i)) =>
              /\ pl'.layoutStage = "exit"
              /\ pl'.currentSceneIndex = pl.currentSceneIndex
              /\ \E t \in pl'.timers :
                    /\ t.id = pl'.transitionTimeoutRef
                    /\ t.kind = "play" /\ t.arg = i + 1
                    /\ t.left = HalfConfigured(SceneAt(i + 1))]_vars

\* C16: whatever transition duration is stored (0, negative, NaN included),
\* unattended playback moves from the exit of scene i to scene i+1 and
\* eventually reaches the finished state.
C16_NoHang ==
    /\ <>(pl.isFinished)
    /\ \A i \in 0..(MaxScenes - 1) :
          (pl.layoutStage = "exit" /\ pl.currentSceneIndex = i)
              ~> (pl.currentSceneIndex = i + 1)

C16_Witness ==
    /\ pl.isFinished
    /\ NumScenes = 2
    /\ SceneAt(1).transition = -200
    /\ \E k \in 1..Len(plHist.timeline) :
          plHist.timeline[k].ev = "play" /\ plHist.timeline[k].scene = 1

\* C15: advanceNext(i) for the last scene sets finished, clears playing, calls
\* stop on the ambient generator and arms no timer and starts no narration.
C15_LastAdvanceFinishes ==
    [][\A i \in 0..(MaxScenes - 1) :
          (i = NumScenes - 1 /\ AdvanceStep(i)) =>
              /\ pl'.isFinished /\ ~pl'.isPlaying /\ ~pl'.isPlayingRef
              /\ amb' = stop(amb)
              /\ pl'.timers \subseteq pl.timers
              /\ pl'.sources \subseteq pl.sources
              /\ pl'.awaiting = pl.awaiting
              /\ pl'.currentSceneIndex = pl.currentSceneIndex]_vars

C15_Witness ==
    /\ pl.isFinished /\ ~pl.isPlaying
    /\ plHist.finishes = 1
    /\ NumScenes = 2 /\ pl.currentSceneIndex = 1
    /\ pl.timers = {} /\ pl.sources = {}
    /\ amb.ramp = [to |-> 0, left |-> FADE_OUT_MS]
    /\ amb.timers # << >> /\ amb.timers[Len(amb.timers)] = TEARDOWN_MS

\* playScene(i) has just run in this step: index, flags and stage are set and
\* the narration of scene i is started (or waits for the context), or the
\* fallback timer is armed when the scene has none
PlaySceneRan(i) ==
    /\ pl'.currentSceneIndex = i
    /\ ~pl'.isFinished /\ pl'.isPlaying /\ pl'.isPlayingRef
    /\ pl'.layoutStage = "enter"
    /\ IF SceneAt(i).audio = 0
       THEN \E t \in pl'.timers :
               /\ t.id = pl'.transitionTimeoutRef
               /\ t.kind = "advance" /\ t.arg = i /\ t.left = 3000
       ELSE IF ctxState = "running"
       THEN \E s \in pl'.sources :
               /\ s.id = pl'.audioSourceRef
               /\ s.scene = i /\ s.left = SceneAt(i).audio
       ELSE pl'.awaiting # << >> /\ pl'.awaiting[Len(pl'.awaiting)] = i

\* C18: a Next (Previous) step runs playScene on the index after (before) the
\* current one when that index exists; on the last (first) scene it changes
\* nothing of the player or the music.
C18_ManualNavigation ==
    [][/\ (plHist'.userActs = plHist.userActs + 1 /\ plHist'.lastAct = "next") =>
             IF pl.currentSceneIndex < NumScenes - 1
             THEN PlaySceneRan(pl.currentSceneIndex + 1)
             ELSE pl' = pl /\ amb' = amb
       /\ (plHist'.userActs = plHist.userActs + 1 /\ plHist'.lastAct = "previous") =>
             IF pl.currentSceneIndex > 0
             THEN PlaySceneRan(pl.currentSceneIndex - 1)
             ELSE pl' = pl /\ amb' = amb]_vars

C18_Witness ==
    /\ plHist.lastAct = "next"
    /\ plHist.lastStart = [index |-> 1, by |-> "user"]
    /\ pl.currentSceneIndex = 1
    /\ pl.isPlaying /\ pl.layoutStage = "enter"

\* C17: every transition duration stored on a scene of the edited story lies
\* in [100, 5000].
C17_DurationInRange ==
    appState = "REVIEW_STORY" =>
        \A k \in 1..NumScenes :
            story.scenes[k].transition # NoTransition =>
                /\ story.scenes[k].transition # NaN
                /\ story.scenes[k].transition >= 100
                /\ story.scenes[k].transition <= 5000

\* C19: while the shared context is suspended no oscillator of the ambient
\* generator, no narration of the player and no source of the exporter has
\* been started.
C19_NoStartWhileSuspended ==
    ctxState = "suspended" =>
        /\ amb.live = {}
        /\ pl.sources = {}
        /\ ex.narrations = {} /\ ex.music # "running"

\* C20: at most one context is ever created, and every getAudioContext call
\* returns that one instance, whichever callers call in whichever order.
C20_OneContext ==
    /\ audioContext.created <= 1
    /\ \A k \in 1..Len(calls) :
          calls[k].op = "getAudioContext" =>
              /\ audioContext.created = 1
              /\ calls[k].got = calls[1].got
              /\ calls[k].got = audioContext.instance

C20_Witness ==
    /\ Len(calls) = 3
    /\ << calls[1].by, calls[2].by, calls[3].by >> = << "decoder", "synthesizer", "exporter" >>
    /\ audioContext = [instance |-> 1, created |-> 1]

\* the last two calls on the generator are stop() and stop(), with no time
\* between them
StopTwice ==
    /\ Len(calls) >= 2
    /\ LastCall.op = "stop" /\ LastCall.imm
    /\ calls[Len(calls) - 1].op = "stop"

\* C21: no node is stopped or disconnected twice; a second stop() right after
\* a stop() ends in the state a single stop() ends in; and after stop(),
\* stop() and the firing of the timers nothing is tracked and nothing is
\* running.
C21_StopIdempotent ==
    /\ ~amb.dupTeardown
    /\ Settle(stop(stop(amb))) = Settle(stop(amb))
    /\ (StopTwice /\ amb.timers = << >> /\ amb.ramp.left = 0) =>
          amb.nodes = << >> /\ amb.live = {}

C21_Witness ==
    /\ StopTwice
    /\ Len(calls) = 3 /\ calls[1].op = "play" /\ calls[1].mood = "scifi"
    /\ amb.timers = << >> /\ amb.ramp.left = 0
    /\ amb.live = {} /\ amb.gen = 1

\* less than 1 s has passed since the latest stop() call, read off the gain
\* automation: the 1 s fade of a stop() is still running, or the 2 s fade-in
\* that play() schedules right after its own stop() has run for less than 1 s
FadeStillRunning(a) ==
    \/ a.ramp.to = 0 /\ a.ramp.left > 0
    \/ a.ramp.to = TARGET_GAIN /\ a.ramp.left > FADE_IN_MS - FADE_OUT_MS

\* C22: a step that stops or disconnects tracked nodes happens no earlier than
\* 1 s after the latest stop() call (the one play() makes included), and it
\* leaves no node running and the tracking list empty.
C22_TeardownAfterFade ==
    [][(amb'.live # amb.live /\ amb'.live \subseteq amb.live) =>
          /\ ~FadeStillRunning(amb)
          /\ amb'.nodes = << >>
          /\ amb'.live = {}]_vars

\* a voice as the recipe text gives it: frequency in 1/100 Hz, waveform, start
\* delay in ms (-1: not given), low-pass cutoff in Hz (0: none), modulator as
\* << rate in 1/100 Hz, depth >> (<< >>: none), per-voice gain in thousandths
Stated(f, t, d, lp, lfo) ==
    [freq |-> f, type |-> t, delay |-> d, lowpass |-> lp, lfo |-> lfo, gain |-> 150]

StatedRecipe(mood) ==
    IF mood = "ethereal" THEN
        << Stated(22000, "sine", 0, 0, << >>),
           Stated(27718, "sine", 100, 0, << >>),
           Stated(32963, "sine", 200, 0, << >>),
           Stated(41530, "triangle", 100, 400, << >>) >>
    ELSE IF mood = "suspense" THEN
        << Stated(5500, "sawtooth", -1, 400, << >>),
           Stated(11000, "triangle", -1, 0, << >>),
           Stated(11650, "sine", -1, 0, << >>) >>
    ELSE IF mood = "scifi" THEN
        << Stated(11000, "sawtooth", -1, 400, << 50, 200 >>),
           Stated(22000, "square", -1, 400, << >>) >>
    ELSE << >>

\* the nodes of voice k among the nodes ns match the stated voice e
VoiceMatches(ns, k, e) ==
    LET mine == {n \in ns : n.voice = k}
        Of(kind) == {n \in mine : n.kind = kind}
    IN  /\ Cardinality(Of("osc")) = 1 /\ Cardinality(Of("gain")) = 1
        /\ \A n \in Of("osc") :
              /\ NodeSetting(n) = e.freq /\ n.spec.type = e.type
              /\ e.delay # -1 => n.spec.delay = e.delay
        /\ \A n \in Of("gain") : NodeSetting(n) = e.gain
        /\ Cardinality(Of("biquad")) = (IF e.lowpass = 0 THEN 0 ELSE 1)
        /\ \A n \in Of("biquad") : NodeSetting(n) = e.lowpass
        /\ Cardinality(Of("lfoOsc")) = (IF e.lfo = << >> THEN 0 ELSE 1)
        /\ Cardinality(Of("lfoGain")) = (IF e.lfo = << >> THEN 0 ELSE 1)
        /\ \A n \in Of("lfoOsc") : NodeSetting(n) = e.lfo[1]
        /\ \A n \in Of("lfoGain") : NodeSetting(n) = e.lfo[2]
        /\ mine = Of("osc") \cup Of("gain") \cup Of("biquad")
                    \cup Of("lfoOsc") \cup Of("lfoGain")

\* C23: a play(mood) step adds to the tracked nodes exactly the voices of the
\* mood's stated recipe and starts them; for "none" and "" it adds no node and
\* does what stop() does.
C23_PlayBuildsRecipe ==
    [][(Len(calls') = Len(calls) + 1 /\ calls'[Len(calls')].op = "play") =>
          LET mood == calls'[Len(calls')].mood
              new == Range(amb'.nodes) \ Range(amb.nodes)
              want == StatedRecipe(mood)
          IN  /\ SubSeq(amb'.nodes, 1, Len(amb.nodes)) = amb.nodes
              /\ {n.voice : n \in new} = 1..Len(want)
              /\ \A k \in 1..Len(want) : VoiceMatches(new, k, want[k])
              /\ amb'.live = amb.live \cup new
              /\ mood \in {"none", ""} => amb' = stop(amb)]_vars

C23_Witness ==
    /\ calls # << >>
    /\ LastCall.op = "play" /\ LastCall.mood = "scifi" /\ ~LastCall.aged
    /\ Len(amb.nodes) = 8
    /\ Cardinality({n \in amb.live : n.kind = "lfoOsc"}) = 1

\* C24: in every state of the generator, setVolume(level) leaves the tracked
\* nodes, the running nodes and the teardown timers as they are and puts the
\* master gain at level, where it still is after 100, 1000 and 2000 ms
\* without a further call.
C24_SetVolumeHolds ==
    \A level \in {0, TARGET_GAIN} :
        LET a == setVolume(amb, level) IN
        /\ a.nodes = amb.nodes /\ a.live = amb.live /\ a.timers = amb.timers
        /\ a.gainVal = level
        /\ \A d \in {100, 1000, 2000} : ambAdvance(a, d).gainVal = level

\* the scene duration as stated: max(4000 ms, narration + 500) with a
\* narration, 4000 ms without
StatedDuration(sc) ==
    IF sc.audio = 0 THEN 4000
    ELSE IF sc.audio + 500 > 4000 THEN sc.audio + 500 ELSE 4000

\* C25: when the exporter starts a scene, the timer it waits on is set to the
\* stated scene duration, and the time left on it never exceeds that duration.
C25_SceneDuration ==
    [][/\ (ex.pc = "awaitImage" /\ ex'.pc = "awaitScene") =>
             ex'.sceneTimer = StatedDuration(SceneAt(ex.i))
       /\ ex'.pc = "awaitScene" =>
             (ex'.sceneTimer >= 0 /\ ex'.sceneTimer <= StatedDuration(SceneAt(ex'.i)))]_vars

C25_Witness ==
    /\ ex.pc = "awaitScene" /\ ex.i = 1
    /\ SceneAt(0).audio = NarrationMs
    /\ SceneAt(1).audio = ExportNarrationMs
    /\ ex.sceneTimer = ExportNarrationMs + 500

\* C26: every narration source and the music bed of an export are connected
\* to the capture sink, which is not the context's output, and the generator
\* the exporter constructs plays nothing on the output.
C26_RoutedToCapture ==
    /\ CaptureSink # ContextOutput
    /\ \A n \in ex.narrations : n.sink = CaptureSink /\ n.sink # ContextOutput
    /\ ex.music # "none" => (ex.musicSink = CaptureSink /\ ex.musicSink # ContextOutput)
    /\ appState = "EXPORTING" => amb.live = {}

C26_Witness ==
    /\ ex.pc = "awaitScene" /\ ex.i = 1
    /\ ex.music = "running" /\ ex.musicSink = CaptureSink
    /\ \E n \in ex.narrations : n.scene = 1 /\ n.sink = CaptureSink

\* the scenes whose narration or render loop is on in exporter state x
ScenesOn(x) == {n.scene : n \in x.narrations} \cup {f.scene : f \in x.frames}

\* C27: the exporter handles the scenes one after the other in story order:
\* the narration and the render loop of scene i start in one step, only
\* scene i is ever sounding or rendering, and the loop moves to scene i+1
\* only when scene i's timer has run out, cancelling scene i's frame.
C27_Sequential ==
    [][/\ ScenesOn(ex') \subseteq {ex'.i}
       /\ ScenesOn(ex') # {} => ex'.pc = "awaitScene"
       /\ (ScenesOn(ex') \ ScenesOn(ex)) # {} =>
             /\ ex.pc = "awaitImage" /\ ex'.pc = "awaitScene" /\ ex'.i = ex.i
             /\ ScenesOn(ex) = {}
             /\ \E f \in ex'.frames : f.scene = ex.i /\ f.id = ex'.frameIdRef
             /\ SceneAt(ex.i).audio > 0 =>
                   \E n \in ex'.narrations : n.scene = ex.i /\ n.left = SceneAt(ex.i).audio
       /\ ex'.i # ex.i =>
             /\ ex'.i = ex.i + 1
             /\ ex.pc = "awaitScene" /\ ex.sceneTimer = 0
             /\ ex'.frames = {} /\ ex'.narrations = {}]_vars

C27_Witness ==
    /\ ex.i = 1 /\ ex.pc = "awaitScene"
    /\ ex.sceneTimer < sceneDuration(SceneAt(1))
    /\ \E n \in ex.narrations : n.scene = 1
    /\ \E f \in ex.frames : f.scene = 1

\* the wrap-up of playAllScenes has run in exporter state x
WrappedUp(x) == x.music = "stopped" \/ x.recorder = "inactive"

\* C28: in an export that is not cancelled, the music bed and the recorder
\* are stopped only once the loop is past the last scene with no frame and no
\* scene timer left, the recorder's stop yields one download, never a second
\* one, and the session is marked done with that download.
C28_NormalCompletion ==
    ~ex.aborted =>
        /\ WrappedUp(ex) =>
              /\ ex.pc = "done" /\ ex.i = NumScenes
              /\ ex.frames = {} /\ ex.sceneTimer = -1
              /\ ex.recorder = "inactive" /\ ex.music # "running"
        /\ ex.downloads <= 1
        /\ ex.pc = "done" => ex.downloads + ex.stopEvents = 1
        /\ ex.pc # "done" => (ex.downloads = 0 /\ ex.stopEvents = 0 /\ ~ex.isDone)
        /\ ex.isDone => ex.downloads = 1
        /\ (ex.mounted /\ ex.downloads = 1) => ex.isDone

C28_Witness ==
    /\ ~ex.aborted /\ NumScenes = MaxScenes
    /\ ex.pc = "done" /\ ex.music = "stopped" /\ ex.recorder = "inactive"
    /\ ex.downloads = 1 /\ ex.isDone /\ ex.stopEvents = 0

\* the export has left the loop over the scenes: wrapped up, thrown, or unmounted
ExportOver(x) == x.pc \in {"done", "threw"} \/ x.aborted

\* C29: no render loop and no narration of a scene starts before the scene's
\* image has loaded, and an export waiting for the image of a scene, loadable
\* or not, eventually leaves the loop: it wraps up, throws or is aborted.
C29_ImageNeverBlocks ==
    /\ [][(ScenesOn(ex') \ ScenesOn(ex)) # {} =>
             (ex.pc = "awaitImage" /\ SceneAt(ex.i).image = "ok")]_vars
    /\ \A i \in 0..(MaxScenes - 1) :
          (ex.pc = "awaitImage" /\ ex.i = i) ~> ExportOver(ex)

\* the payload of draft scene sc decodes into an audio buffer
PayloadDecodes(sc) ==
    /\ sc.audioBase64 # NoPayload
    /\ decodeBase64(sc.audioBase64).ok
    /\ decodeAudioData(decodeBase64(sc.audioBase64).bytes).ok

\* C30: a loaded draft always ends in the review state, never in the error
\* state, with as many scenes in the same order; a scene that carried only a
\* payload has a narration buffer if the payload decodes and none if not.
C30_LoadDraftRestores ==
    /\ appState # "ERROR" /\ load.error = ""
    /\ load.pc = "done" =>
          /\ appState = "REVIEW_STORY"
          /\ Len(story.scenes) = Len(load.draft.scenes)
          /\ \A k \in 1..Len(story.scenes) :
                LET sc == load.draft.scenes[k] IN
                /\ story.scenes[k].id = sc.id
                /\ story.scenes[k].audioBase64 = sc.audioBase64
                /\ sc.audioData = NoAudioData =>
                      IF PayloadDecodes(sc)
                      THEN story.scenes[k].audioData
                               = decodeBase64(sc.audioBase64).bytes \div 2
                           /\ story.scenes[k].audioData # NoAudioData
                      ELSE story.scenes[k].audioData = NoAudioData

C30_Witness ==
    /\ load.pc = "done" /\ appState = "REVIEW_STORY"
    /\ Len(story.scenes) = 2
    /\ load.draft.scenes[1].audioData = NoAudioData
    /\ load.draft.scenes[1].audioBase64 = << "A", "A", "A", "=" >>
    /\ story.scenes[1].audioData = 1
    /\ load.draft.scenes[2].audioData = NoAudioData
    /\ load.draft.scenes[2].audioBase64 = << "A", "!", "A", "=" >>
    /\ story.scenes[2].audioData = NoAudioData

\* C36: in every state of the player, finished means that the current scene
\* is the last one, that no narration source is live and that no advance
\* timer is pending.
C36_FinishedIsQuiet ==
    pl.isFinished =>
        /\ pl.currentSceneIndex = NumScenes - 1
        /\ pl.sources = {}
        /\ \A t \in pl.timers : t.kind # "advance"

\* C37: once the exporter has been unmounted before the loop wrapped up, the
\* loop takes no further step: the loop variable and its position stay, no
\* narration starts, no frame is requested, and the wrap-up does not call
\* recorder.stop() on the inactive recorder (which throws).
C37_CancelEndsLoop ==
    [][ex.aborted =>
          /\ ex'.i = ex.i /\ ex'.pc = ex.pc
          /\ ex'.narrations \subseteq {[n EXCEPT !.left = m] : n \in ex.narrations,
                                                             m \in 0..ExportNarrationMs}
          /\ Ids(ex'.frames) \subseteq Ids(ex.frames)
          /\ ~(ex.pc = "awaitScene" /\ ex'.pc = "threw")]_vars

\* C38: a cancelled export changes the app state no more: once the exporter
\* was unmounted by Cancel before it marked itself done, no onComplete
\* callback of that session runs and a later PLAYING state is not reverted.
C38_CancelledSessionSilent ==
    [][(ex.aborted /\ ~ex.mounted) =>
          /\ ~ExComplete
          /\ appState = "PLAYING" => appState' = "PLAYING"]_vars

\* playback is paused in player state p: mounted, not playing, not finished
Paused(p) == p.mounted /\ ~p.isPlaying /\ ~p.isFinished

\* C39: while playback is paused the volume the player last set on the
\* ambient generator is 0: the pause sets 0, and every mute toggle made
\* during the pause sets 0 again.
C39_PausedVolumeZero ==
    [][/\ (pl.isPlaying /\ Paused(pl')) => amb'.gainVal = 0
       /\ (Paused(pl) /\ Paused(pl') /\ pl'.isMuted # pl.isMuted) => amb'.gainVal = 0]_vars

\* the last scene's advance has called stop on the generator
StoppedByAdvance == \E k \in 1..Len(calls) : calls[k].op = "stop"

\* C40: the player calls play on the generator once at most, in the mount
\* effect: no graph later than the first is ever built, and once the last
\* scene's advance has stopped the generator and its teardown timers have
\* fired, the node set is empty and stays empty, Watch Again and Play/Pause
\* included.
C40_PlayOnlyAtMount ==
    /\ amb.gen <= 1
    /\ \A k \in 1..Len(calls) : calls[k].op = "play" => k = 1
    /\ \A n \in Range(amb.nodes) \cup amb.live : n.gen = 1
    /\ (StoppedByAdvance /\ amb.timers = << >>) => (amb.nodes = << >> /\ amb.live = {})

C40_Witness ==
    /\ story.backgroundMusic \in RealMoods
    /\ StoppedByAdvance
    /\ plHist.userActs > 0
    /\ pl.isPlaying /\ ~pl.isFinished /\ pl.currentSceneIndex = 0
    /\ amb.timers = << >> /\ amb.nodes = << >>

\* C34: reordering only permutes the scenes: the story always holds the
\* scenes the editor was opened with, each once, identifier and contents
\* untouched; a move up at index 0 and a move down at the last index change
\* nothing, and a drop puts the dragged scene at the drop index.
C34_ReorderPermutes ==
    /\ Len(story.scenes) = Len(ed.original)
    /\ \A k \in 1..Len(ed.original) :
          Cardinality({j \in 1..Len(story.scenes) : story.scenes[j] = ed.original[k]}) = 1
    /\ moveScene(story, 0, "up") = story
    /\ moveScene(story, NumScenes - 1, "down") = story
    /\ \A d \in 0..(NumScenes - 1), i \in 0..(NumScenes - 1) :
          LET st == handleDrop(story, d, i) IN
          /\ st.scenes[i + 1] = story.scenes[d + 1]
          /\ Len(st.scenes) = NumScenes
          /\ SpliceOut(st.scenes, i) = SpliceOut(story.scenes, d)

C34_Witness ==
    /\ NumScenes = 3
    /\ ed.original # << >>
    /\ story.scenes = << ed.original[3], ed.original[1], ed.original[2] >>
    /\ ed.draggedIndex = NoIndex

\* the document prepared from the story fits into the storage
Fits(stripImages, stripAudio) ==
    DocSize(prepareStoryForSave(story, stripImages, stripAudio)) <= ed.storage.capacity

\* C32: when the storage fails for lack of room only, a save writes the full
\* story, then the story without images, then the story without images and raw
\* audio, stopping at the first write that fits: saved for the full write,
\* partial for a degraded one, error only after all three writes failed.
C32_SaveDegrades ==
    (ed.saves > 0 /\ ~ed.storage.denied) =>
        /\ \E k \in 1..3 : ed.writes = SubSeq(<< "full", "noImages", "textOnly" >>, 1, k)
        /\ ed.outcome = "saved" <=> Fits(FALSE, FALSE)
        /\ ed.outcome = "saved" =>
              (ed.writes = << "full" >>
               /\ ed.item = << prepareStoryForSave(story, FALSE, FALSE) >>)
        /\ ed.outcome = "partial" <=> (~Fits(FALSE, FALSE) /\ Fits(TRUE, TRUE))
        /\ (ed.outcome = "partial" /\ Fits(TRUE, FALSE)) =>
              (ed.writes = << "full", "noImages" >>
               /\ ed.item = << prepareStoryForSave(story, TRUE, FALSE) >>)
        /\ (ed.outcome = "partial" /\ ~Fits(TRUE, FALSE)) =>
              (ed.writes = << "full", "noImages", "textOnly" >>
               /\ ed.item = << prepareStoryForSave(story, TRUE, TRUE) >>)
        /\ ed.outcome = "error" <=> ~Fits(TRUE, TRUE)
        /\ ed.outcome = "error" =>
              (ed.writes = << "full", "noImages", "textOnly" >> /\ ed.item = << >>)
        /\ ed.saveStatus \in {ed.outcome, "idle"}

C32_Witness ==
    /\ ed.saves > 0 /\ ~ed.storage.denied
    /\ NumScenes = MaxScenes
    /\ ~Fits(TRUE, FALSE) /\ Fits(TRUE, TRUE)
    /\ ed.outcome = "partial" /\ ed.saveStatus = "partial"
    /\ ed.writes = << "full", "noImages", "textOnly" >>
    /\ DocSize(story) > DocSize(ed.item[1])

\* C35: no stored and no downloaded document holds a decoded buffer; the
\* stored document keeps the raw audio unless the save went down to the text
\* only, and the downloaded one keeps raw audio and images.
C35_NoBufferPersisted ==
    /\ \A doc \in Range(ed.item) \cup Range(ed.downloaded) :
          /\ Len(doc.scenes) = NumScenes
          /\ \A k \in 1..Len(doc.scenes) :
                /\ doc.scenes[k].audioData = NoAudioData
                /\ doc.scenes[k].id = story.scenes[k].id
    /\ \A doc \in Range(ed.item) : \A k \in 1..Len(doc.scenes) :
          Len(ed.writes) < 3 => doc.scenes[k].audioBase64 = story.scenes[k].audioBase64
    /\ \A doc \in Range(ed.downloaded) : \A k \in 1..Len(doc.scenes) :
          /\ doc.scenes[k].audioBase64 = story.scenes[k].audioBase64
          /\ doc.scenes[k].imageData = story.scenes[k].imageData

C35_Witness ==
    /\ ed.item # << >> /\ ed.downloaded # << >>
    /\ ed.outcome = "partial" /\ ed.writes = << "full", "noImages" >>
    /\ \A k \in 1..NumScenes :
          /\ story.scenes[k].audioData # NoAudioData
          /\ story.scenes[k].audioBase64 # NoPayload
          /\ ed.item[1].scenes[k].audioData = NoAudioData
          /\ ed.downloaded[1].scenes[k].audioData = NoAudioData

\* run r exists in g and a generation call of it has failed
FailedIn(g, r) == r <= Len(g.runs) /\ g.runs[r].failed

\* run r of g was over (in error or in review) with calls still out
OverIn(g, r) == r <= Len(g.runs) /\ g.runs[r].status \in {"error", "review"}

\* C33: a handleGenerate run in which a generation call failed is in error
\* and never ends in the review state; the step of the first failure sets
\* ERROR; the reset from ERROR gives IDLE with no story, no progress and no
\* error; a result or an error of a run that is over changes neither the app
\* state nor the story nor the error, and no progress appears while IDLE.
C33_FailureEndsInError ==
    [][/\ \A r \in 1..MaxRuns : FailedIn(gen', r) => gen'.runs[r].status = "error"
       /\ \A r \in 1..MaxRuns : (FailedIn(gen', r) /\ ~FailedIn(gen, r)) =>
             (appState' = "ERROR" /\ gen'.error # "")
       /\ (appState' = "REVIEW_STORY" /\ appState # "REVIEW_STORY") =>
             (gen'.runs[Len(gen'.runs)].status = "review"
              /\ ~gen'.runs[Len(gen'.runs)].failed)
       /\ appState = "ERROR" =>
             (appState' \in {"ERROR", "IDLE"}
              /\ (appState' = "IDLE" =>
                     (story' = NoStory /\ gen'.progress = NoProgress /\ gen'.error = "")))
       /\ \A r \in 1..MaxRuns :
             (OverIn(gen, r) /\ gen'.runs[r].pending # gen.runs[r].pending) =>
                 (appState' = appState /\ story' = story /\ gen'.error = gen.error)
       /\ appState' = "IDLE" => gen'.progress = NoProgress]_vars

C33_Witness ==
    /\ gen.runs # << >>
    /\ gen.runs[1].status = "error" /\ gen.runs[1].n = MaxScenes
    /\ gen.runs[1].pending = {}
    /\ appState = "IDLE" /\ story = NoStory
    /\ gen.progress = NoProgress /\ gen.error = ""

\* C31: for every byte array of even length and every channel count c,
\* decodeAudioData gives a buffer of (bytes/2)/c frames whose frame i of
\* channel ch is the signed 16-bit little-endian integer at sample i*c + ch
\* over 32768, and a second decode of the same bytes gives an equal buffer.
C31_DecodeLossless ==
    (dec.calls > 0 /\ Len(dec.data) % 2 = 0) =>
        LET c == dec.numChannels
            n == Len(dec.data) \div 2
        IN  /\ dec.first.ok
            /\ dec.first.frames * c = n
            /\ \A ch \in 0..(c - 1), i \in 0..(dec.first.frames - 1) :
                  dec.first.channels[ch + 1][i + 1] = Int16At(dec.data, i * c + ch)
            /\ dec.calls = 2 => dec.second = dec.first

====
